---- MODULE Spec2Model ----
(***************************************************************************)
(* Realtime collaborative canvas: the authoritative operation log          *)
(* (server/drawing-state.ts), the socket.io message handlers               *)
(* (server/server.ts), the client mirror (client/state/OperationStore.ts,  *)
(* client/app.ts) and the two folds of the log into visible strokes.       *)
(***************************************************************************)
EXTENDS Integers, Sequences, FiniteSets, TLC

VARIABLES
    ds,            \* SpecLog: one DrawingState under direct calls
    calls,         \* SpecLog: number of calls made so far
    lastCall,      \* SpecLog: [name, ret] of the latest call
    prevCall,      \* SpecLog: [name, ret] of the call before it
    issued,        \* SpecLog: seq values returned by successful push/redo, in call order
    past,          \* SpecLog: per call so far, [name, ok, before]: the method, whether
                   \* it returned an operation, and the DrawingState it was called on
    snapshot,      \* SpecSnap: the list an earlier getSnapshot call returned, as the
                   \* caller holds it now, or null
    foldIn,        \* SpecFold: the operation sequence handed to both folds
    foldOut,       \* SpecFold: [server, client] results, or null before the folds ran
    rooms,         \* server.ts: Map roomId -> DrawingState
    activeStrokes, \* server.ts: Map `${socket.id}:${strokeId}` -> ActiveStrokeBuffer
    conn,          \* per socket: [status, room]; status is idle, joined or closed
    inbox,         \* per socket: server messages emitted to it and not yet handled
    mirror,        \* per client: OperationStore.operations
    remoteStrokes, \* per client: app.ts remoteStrokes, Map strokeId -> live stroke
    remoteCursors, \* per client: app.ts remoteCursors, Map userId -> cursor
    budget,        \* [starts, moves, cursors]: client messages still to come, by kind
    lastSeq,       \* per client: seq of the latest commit or redo it handled, 0 if none
    instances,     \* server.ts: [made, byRoom]: DrawingState objects constructed so far
                   \* and, per room id, which of them the rooms Map holds
    syncTop,       \* SpecSync: per socket, the largest seq in the SYNC emitted to it,
                   \* 0 if none
    connState,     \* per socket: the object its handlers' `state` is bound to, 0 if none
    pair,          \* SpecPair: two runs of the server fed the same message types
    mem,           \* SpecHeap: one run of the server with its points arrays as objects
    input,         \* SpecInput: one InputHandler, its callbacks and the pointers
    health         \* SpecHealth: one HealthCheckService and the calls made on it

logVars == <<ds, calls, lastCall, prevCall, issued, past, snapshot>>
foldVars == <<foldIn, foldOut>>
serverVars == <<rooms, activeStrokes, conn, inbox, budget>>
clientVars == <<mirror, remoteStrokes, remoteCursors, lastSeq>>
heapVars == <<instances, connState, syncTop>>
sysVars == <<rooms, activeStrokes, conn, inbox, budget,
             mirror, remoteStrokes, remoteCursors, lastSeq, instances, connState, syncTop>>
vars == <<ds, calls, lastCall, prevCall, issued, past, snapshot,
          foldIn, foldOut,
          rooms, activeStrokes, conn, inbox, budget,
          mirror, remoteStrokes, remoteCursors, lastSeq, instances, connState,
          syncTop, pair, mem, input, health>>

----------------------------------------------------------------------------
(* Bounds *)

MaxCalls == 6      \* SpecLog: calls on the DrawingState
MaxFoldLen == 3    \* SpecFold: length of the folded operation sequence
MaxSeq == 3        \* Spec: largest seq a room's log issues
MaxInbox == 3      \* Spec: messages emitted to one socket and not yet handled
MaxPairLen == 4    \* SpecPair: messages fed to each of the two runs
MaxRunLen == 5     \* SpecRun: messages fed to the run
MaxSnapCalls == 4   \* SpecSnap: log calls and list mutations after construction
MaxHeapLen == 5    \* SpecHeap: messages fed to the run

----------------------------------------------------------------------------
(* shared/types.ts: points, strokes, operations *)

\* JavaScript null (a record, so that it compares with operations)
null == [type |-> "null"]

\* Point {x, y, p, t}; p is the pressure in tenths (5 is the mouse default 0.5)
P0 == [x |-> 0, y |-> 0, p |-> 5, t |-> 0]
P1 == [x |-> 3, y |-> 4, p |-> 5, t |-> 16]

StrokeIds == {"s1", "s2"}
Colors == {"#000000", "#f0f0f0"}
Sizes == {5}

Stroke(id, color, size, points) ==
    [id |-> id, color |-> color, size |-> size, points |-> points]

AddStrokeOp(id, stroke) == [id |-> id, type |-> "ADD_STROKE", stroke |-> stroke]

RemoveStrokeOp(id, strokeId) ==
    [id |-> id, type |-> "REMOVE_STROKE", strokeId |-> strokeId]

\* { ...op, seq: n }: every own field of op, then seq (which wins over a seq in op)
WithSeq(op, n) ==
    [f \in (DOMAIN op) \cup {"seq"} |-> IF f = "seq" THEN n ELSE op[f]]

\* op without its seq: the id and payload of an operation
Payload(op) == [f \in (DOMAIN op) \ {"seq"} |-> op[f]]

----------------------------------------------------------------------------
(* JavaScript Map: entries in insertion order; set on a present key keeps  *)
(* the entry's position, delete removes the entry.                         *)

EmptyMap == <<>>

MapHas(m, k) == \E i \in 1..Len(m) : m[i].key = k

MapSet(m, k, v) ==
    IF MapHas(m, k)
    THEN [i \in 1..Len(m) |-> IF m[i].key = k THEN [key |-> k, value |-> v] ELSE m[i]]
    ELSE Append(m, [key |-> k, value |-> v])

\* a plausible slip: entries.splice(indexOf(k), 1), which drops the last entry when
\* k is absent (indexOf gives -1)
MapDelete_Splice(m, k) ==
    IF MapHas(m, k)
    THEN SelectSeq(m, LAMBDA e : e.key # k)
    ELSE SubSeq(m, 1, Len(m) - 1)

MapDelete(m, k) == SelectSeq(m, LAMBDA e : e.key # k)

MapValues(m) == [i \in 1..Len(m) |-> m[i].value]

----------------------------------------------------------------------------
(* server/drawing-state.ts: class DrawingState.  Each method is an         *)
(* operator from the object's fields to [state, ret].                      *)

NewDrawingState == [operations |-> <<>>, redoStack |-> <<>>, nextSeq |-> 1]

\* a plausible slip: seq: this.nextSeq (no post-increment)
pushOperation_NoIncrement(state, op) ==
    LET sequencedOp == WithSeq(op, state.nextSeq)
    IN  [state |-> [operations |-> Append(state.operations, sequencedOp),
                    redoStack |-> <<>>,
                    nextSeq |-> state.nextSeq],
         ret |-> sequencedOp]

\* a plausible slip: the redo stack is not cleared
pushOperation_KeepRedo(state, op) ==
    LET sequencedOp == WithSeq(op, state.nextSeq)
    IN  [state |-> [operations |-> Append(state.operations, sequencedOp),
                    redoStack |-> state.redoStack,
                    nextSeq |-> state.nextSeq + 1],
         ret |-> sequencedOp]

pushOperation(state, op) ==
    LET sequencedOp == WithSeq(op, state.nextSeq)
    IN  [state |-> [operations |-> Append(state.operations, sequencedOp),
                    redoStack |-> IF Len(state.redoStack) > 0 THEN <<>> ELSE state.redoStack,
                    nextSeq |-> state.nextSeq + 1],
         ret |-> sequencedOp]

\* a plausible slip: operations[operations.length - 1] instead of pop(), which leaves
\* the operation in the log
undo_Peek(state) ==
    IF Len(state.operations) = 0
    THEN [state |-> state, ret |-> null]
    ELSE LET op == state.operations[Len(state.operations)]
         IN  [state |-> [operations |-> state.operations,
                         redoStack |-> Append(state.redoStack, op),
                         nextSeq |-> state.nextSeq],
              ret |-> op]

\* a plausible slip: the undone operation's seq is given back to the counter
undo_ReleasesSeq(state) ==
    IF Len(state.operations) = 0
    THEN [state |-> state, ret |-> null]
    ELSE LET n == Len(state.operations)
             op == state.operations[n]
         IN  [state |-> [operations |-> SubSeq(state.operations, 1, n - 1),
                         redoStack |-> Append(state.redoStack, op),
                         nextSeq |-> state.nextSeq - 1],
              ret |-> op]

\* a plausible slip: shift() instead of pop()
undo_Shift(state) ==
    IF Len(state.operations) = 0
    THEN [state |-> state, ret |-> null]
    ELSE LET op == Head(state.operations)
         IN  [state |-> [operations |-> Tail(state.operations),
                         redoStack |-> Append(state.redoStack, op),
                         nextSeq |-> state.nextSeq],
              ret |-> op]

\* a plausible slip: the popped value is pushed onto redoStack before the null test
undo_PushBeforeTest(state) ==
    IF Len(state.operations) = 0
    THEN [state |-> [state EXCEPT !.redoStack = Append(@, null)], ret |-> null]
    ELSE LET n == Len(state.operations)
             op == state.operations[n]
         IN  [state |-> [operations |-> SubSeq(state.operations, 1, n - 1),
                         redoStack |-> Append(state.redoStack, op),
                         nextSeq |-> state.nextSeq],
              ret |-> op]

undo(state) ==
    IF Len(state.operations) = 0
    THEN [state |-> state, ret |-> null]
    ELSE LET n == Len(state.operations)
             op == state.operations[n]
         IN  [state |-> [operations |-> SubSeq(state.operations, 1, n - 1),
                         redoStack |-> Append(state.redoStack, op),
                         nextSeq |-> state.nextSeq],
              ret |-> op]

\* a plausible slip: shift() instead of pop(), which redoes the oldest undone
\* operation first
redo_Shift(state) ==
    IF Len(state.redoStack) = 0
    THEN [state |-> state, ret |-> null]
    ELSE LET op == Head(state.redoStack)
             resequencedOp == WithSeq(op, state.nextSeq)
         IN  [state |-> [operations |-> Append(state.operations, resequencedOp),
                         redoStack |-> Tail(state.redoStack),
                         nextSeq |-> state.nextSeq + 1],
              ret |-> resequencedOp]

\* a plausible slip: the operation is pushed back with its old seq
redo_OldSeq(state) ==
    IF Len(state.redoStack) = 0
    THEN [state |-> state, ret |-> null]
    ELSE LET n == Len(state.redoStack)
             op == state.redoStack[n]
         IN  [state |-> [operations |-> Append(state.operations, op),
                         redoStack |-> SubSeq(state.redoStack, 1, n - 1),
                         nextSeq |-> state.nextSeq],
              ret |-> op]

redo(state) ==
    IF Len(state.redoStack) = 0
    THEN [state |-> state, ret |-> null]
    ELSE LET n == Len(state.redoStack)
             op == state.redoStack[n]
             resequencedOp == WithSeq(op, state.nextSeq)
         IN  [state |-> [operations |-> Append(state.operations, resequencedOp),
                         redoStack |-> SubSeq(state.redoStack, 1, n - 1),
                         nextSeq |-> state.nextSeq + 1],
              ret |-> resequencedOp]

\* a plausible slip: return this.operations, the log's own array
getSnapshot_NoCopy(state) == [array |-> "operations", items |-> state.operations]

\* [...this.operations]: a new array with the elements of this.operations in order.
\* `array` says which array object the caller got: the log's own ("operations") or
\* a new one ("copy")
getSnapshot(state) == [array |-> "copy", items |-> state.operations]

RECURSIVE FoldServer(_, _)
FoldServer(ops, visibleStrokes) ==
    IF ops = <<>> THEN visibleStrokes
    ELSE LET op == Head(ops)
         IN  FoldServer(Tail(ops),
                 CASE op.type = "ADD_STROKE" ->
                          MapSet(visibleStrokes, op.stroke.id, op.stroke)
                   [] op.type = "REMOVE_STROKE" ->
                          MapDelete(visibleStrokes, op.strokeId)
                   [] OTHER -> visibleStrokes)

\* Array.from(visibleStrokes.values())
computeVisibleStrokes(state) == MapValues(FoldServer(state.operations, EmptyMap))

----------------------------------------------------------------------------
(* client/canvas/CanvasRenderer.ts: the fold inside renderHistory; the     *)
(* result is the sequence of strokes handed to drawStroke, in draw order.  *)

\* a plausible slip: the map keyed by the operation id instead of the stroke id
RECURSIVE FoldClient_ByOpId(_, _)
FoldClient_ByOpId(operations, visibleStrokes) ==
    IF operations = <<>> THEN visibleStrokes
    ELSE LET op == Head(operations)
         IN  FoldClient_ByOpId(Tail(operations),
                 IF op.type = "ADD_STROKE"
                 THEN MapSet(visibleStrokes, op.id, op.stroke)
                 ELSE IF op.type = "REMOVE_STROKE"
                      THEN MapDelete(visibleStrokes, op.strokeId)
                      ELSE visibleStrokes)

RECURSIVE FoldClient(_, _)
FoldClient(operations, visibleStrokes) ==
    IF operations = <<>> THEN visibleStrokes
    ELSE LET op == Head(operations)
         IN  FoldClient(Tail(operations),
                 IF op.type = "ADD_STROKE"
                 THEN MapSet(visibleStrokes, op.stroke.id, op.stroke)
                 ELSE IF op.type = "REMOVE_STROKE"
                      THEN MapDelete(visibleStrokes, op.strokeId)
                      ELSE visibleStrokes)

renderHistory(operations) == MapValues(FoldClient(operations, EmptyMap))

----------------------------------------------------------------------------
(* Initial values of the variables the other specifications leave alone   *)

NoCall == [name |-> "none", ret |-> null]

InitLogVars ==
    /\ ds = NewDrawingState
    /\ calls = 0
    /\ lastCall = NoCall
    /\ prevCall = NoCall
    /\ issued = <<>>
    /\ past = <<>>
    /\ snapshot = null

InitFoldVars ==
    /\ foldIn = <<>>
    /\ foldOut = null

----------------------------------------------------------------------------
(* Maps whose iteration order is never observed (rooms, activeStrokes,     *)
(* remoteStrokes, remoteCursors): functions on the set of present keys.    *)

NoEntries == << >>

Has(m, k) == k \in DOMAIN m

Put(m, k, v) == [x \in (DOMAIN m) \cup {k} |-> IF x = k THEN v ELSE m[x]]

Remove(m, k) == [x \in (DOMAIN m) \ {k} |-> m[x]]

\* one run of the server as a value: the DrawingState of the room and the buffers
NewServer == [state |-> NewDrawingState, activeStrokes |-> NoEntries]

\* server start, with the points arrays as objects: arrays[ref] is the content of
\* the ref-th array created, and an ActiveStrokeBuffer's or a Stroke's `points` is a
\* ref.  received and fed are history: per buffer key the points received since the
\* latest STROKE_START, and the number of messages handled.
NewMemory ==
    [arrays |-> <<>>, activeStrokes |-> NoEntries, state |-> NewDrawingState,
     received |-> NoEntries, fed |-> 0]

\* syncTop is kept by SpecSync only: elsewhere it holds nothing
NoSyncTop == <<>>

\* app.ts as the InputHandler's callbacks see it: no stroke under way, no uuid
\* generated, nothing emitted
NewApp == [currentStrokeId |-> null, uuids |-> 0, sent |-> <<>>]

\* a constructed InputHandler (isDrawing, activePoints, lastPoint, rafId), the
\* animation frames requested and not yet run or cancelled, the pointers held down,
\* the callbacks called so far, and the number of events dispatched
NewInput ==
    [isDrawing |-> FALSE, activePoints |-> <<>>, lastPoint |-> null, rafId |-> null,
     frames |-> {}, requested |-> 0, down |-> {}, called |-> <<>>, app |-> NewApp,
     events |-> 0]

\* a constructed HealthCheckService, waitForServer not yet called on it: its
\* currentAttempt, where the call stands, the requests made, the outcome of the
\* latest one and the delay of the latest retry timer
NewHealth ==
    [currentAttempt |-> 0, at |-> "constructed", requests |-> 0, outcome |-> "none",
     delay |-> 0]

InitPairVars ==
    /\ pair = [a |-> NewServer, b |-> NewServer, outA |-> <<>>, outB |-> <<>>,
               sameIds |-> TRUE]
    /\ mem = NewMemory
    /\ syncTop = NoSyncTop
    /\ input = NewInput
    /\ health = NewHealth

----------------------------------------------------------------------------
(* server/server.ts                                                        *)

ConnIds == {"c1", "c2"}          \* socket ids
RoomIds == {"r1", "r2"}
NoRoomId == ""                   \* handshake without roomId (falsy)
StartPoints == {P0}
PointBatches == {<<P1, P0>>}
CursorPositions == {[x |-> 7, y |-> 9]}

\* a plausible slip: the buffer keyed by the stroke id alone
bufferKey_StrokeOnly(socketId, id) == id

\* `${socket.id}:${msg.id}`
bufferKey(socketId, id) == socketId \o ":" \o id

\* key.startsWith(prefix)
startsWith(key, prefix) ==
    Len(key) >= Len(prefix) /\ SubSeq(key, 1, Len(prefix)) = prefix

\* a plausible slip: no rooms.has test, every call sets a new DrawingState
getRoomState_AlwaysNew(roomMap, inst, roomId) ==
    [rooms |-> Put(roomMap, roomId, NewDrawingState),
     instances |-> [made |-> inst.made + 1,
                    byRoom |-> Put(inst.byRoom, roomId, inst.made + 1)],
     ret |-> inst.made + 1]

\* getRoomState(roomId): the rooms Map and the constructed objects after the call, and
\* the object returned.  Objects are named by their construction number; the Map's
\* value for a room is the fields of the object it holds.
getRoomState(roomMap, inst, roomId) ==
    IF ~Has(roomMap, roomId)
    THEN [rooms |-> Put(roomMap, roomId, NewDrawingState),
          instances |-> [made |-> inst.made + 1,
                         byRoom |-> Put(inst.byRoom, roomId, inst.made + 1)],
          ret |-> inst.made + 1]
    ELSE [rooms |-> roomMap, instances |-> inst, ret |-> inst.byRoom[roomId]]

\* sockets currently in the socket.io room
InRoom(roomId) == { c \in ConnIds : conn[c].status = "joined" /\ conn[c].room = roomId }

\* emit msg to each socket of targets, after what was emitted to it before
Emit(box, targets, msg) ==
    [c \in ConnIds |-> IF c \in targets THEN Append(box[c], msg) ELSE box[c]]

\* every socket of targets can take n more messages
HasRoomFor(targets, n) == \A c \in targets : Len(inbox[c]) + n <= MaxInbox

\* the runs explored, by the number of STROKE_START, buffered STROKE_MOVE and
\* CURSOR_MOVE messages the clients send: all runs with two strokes and no moves or
\* cursors, and all runs with one stroke, one move and one cursor message
Budgets ==
    { [starts |-> 2, moves |-> 0, cursors |-> 0],
      [starts |-> 1, moves |-> 1, cursors |-> 1] }

SyncMsg(roomId, operations) ==
    [type |-> "S_SYNC", roomId |-> roomId, operations |-> operations]

\* no client message to come: the value the other specifications keep
NoBudget == [starts |-> 0, moves |-> 0, cursors |-> 0]

InitSysVars ==
    /\ rooms = NoEntries
    /\ activeStrokes = NoEntries
    /\ conn = [c \in ConnIds |-> [status |-> "idle", room |-> NoRoomId]]
    /\ inbox = [c \in ConnIds |-> <<>>]
    /\ mirror = [c \in ConnIds |-> <<>>]
    /\ remoteStrokes = [c \in ConnIds |-> NoEntries]
    /\ remoteCursors = [c \in ConnIds |-> NoEntries]
    /\ lastSeq = [c \in ConnIds |-> 0]
    /\ instances = [made |-> 0, byRoom |-> NoEntries]
    /\ connState = [c \in ConnIds |-> 0]

\* the largest seq among ops, 0 if there is none
TopSeq(ops) ==
    IF ops = <<>> THEN 0
    ELSE CHOOSE n \in { ops[i].seq : i \in 1..Len(ops) } :
             \A i \in 1..Len(ops) : ops[i].seq <= n

\* what syncTop becomes when the SYNC emitted to c holds seqs up to top
NoteSync(c, top) ==
    IF syncTop = NoSyncTop THEN syncTop ELSE [syncTop EXCEPT ![c] = top]

\* a plausible slip: io.to(roomId).emit for the SYNC instead of socket.emit
Connect_SyncToRoom(c, roomId) ==
    /\ conn[c].status = "idle"
    /\ roomId # NoRoomId
    /\ LET got == getRoomState(rooms, instances, roomId)
       IN  /\ rooms' = got.rooms
           /\ instances' = got.instances
           /\ connState' = [connState EXCEPT ![c] = got.ret]
           /\ syncTop' = NoteSync(c, TopSeq(got.rooms[roomId].operations))
    /\ conn' = [conn EXCEPT ![c] = [status |-> "joined", room |-> roomId]]
    /\ inbox' = Emit(inbox, InRoom(roomId) \cup {c},
                     SyncMsg(roomId, getSnapshot(rooms'[roomId]).items))
    /\ UNCHANGED <<activeStrokes, budget, clientVars, logVars, foldVars, pair, mem, input, health>>

\* io.on('connection'): a handshake with a room id joins the room and gets SYNC
Connect(c, roomId) ==
    /\ conn[c].status = "idle"
    /\ roomId # NoRoomId
    /\ LET got == getRoomState(rooms, instances, roomId)
       IN  /\ rooms' = got.rooms
           /\ instances' = got.instances
           /\ connState' = [connState EXCEPT ![c] = got.ret]
           /\ syncTop' = NoteSync(c, TopSeq(got.rooms[roomId].operations))
    /\ conn' = [conn EXCEPT ![c] = [status |-> "joined", room |-> roomId]]
    /\ inbox' = Emit(inbox, {c}, SyncMsg(roomId, getSnapshot(rooms'[roomId]).items))
    /\ UNCHANGED <<activeStrokes, budget, clientVars, logVars, foldVars, pair, mem, input, health>>

\* a plausible slip: no return after socket.disconnect(), so the handler goes on to
\* getRoomState with the missing room id
ConnectNoRoom_NoReturn(c) ==
    /\ conn[c].status = "idle"
    /\ conn' = [conn EXCEPT ![c] = [status |-> "closed", room |-> NoRoomId]]
    /\ LET got == getRoomState(rooms, instances, NoRoomId)
       IN  /\ rooms' = got.rooms
           /\ instances' = got.instances
           /\ connState' = [connState EXCEPT ![c] = got.ret]
    /\ UNCHANGED <<activeStrokes, inbox, budget, syncTop, clientVars, logVars, foldVars,
                   pair, mem, input, health>>

\* io.on('connection'): a handshake without room id is disconnected at once
ConnectNoRoom(c) ==
    /\ conn[c].status = "idle"
    /\ conn' = [conn EXCEPT ![c] = [status |-> "closed", room |-> NoRoomId]]
    /\ UNCHANGED <<rooms, activeStrokes, inbox, budget, clientVars, heapVars, logVars, foldVars, pair, mem, input, health>>

\* the socket has its message handler registered
Accepts(c) == conn[c].status = "joined"

\* msg.roomId !== roomId: dropped before the switch
WrongRoomMessage(c, msgRoomId) ==
    /\ Accepts(c)
    /\ msgRoomId # conn[c].room
    /\ UNCHANGED <<serverVars, clientVars, heapVars, logVars, foldVars, pair, mem, input, health>>

\* a plausible slip: the stroke is committed to the log as soon as it starts
StrokeStart_PushesOperation(c, id, color, size, startPoint) ==
    LET roomId == conn[c].room
        stroke == Stroke(id, color, size, <<startPoint>>)
    IN  /\ Accepts(c)
        /\ budget.starts > 0
        /\ HasRoomFor(InRoom(roomId) \ {c}, 1)
        /\ activeStrokes' = Put(activeStrokes, bufferKey(c, id),
                                [id |-> id, color |-> color, size |-> size,
                                 points |-> <<startPoint>>])
        /\ rooms' = [rooms EXCEPT ![roomId] =
                        pushOperation(@, AddStrokeOp(id, stroke)).state]
        /\ inbox' = Emit(inbox, InRoom(roomId) \ {c},
                         [type |-> "S_STROKE_START", roomId |-> roomId, userId |-> c,
                          id |-> id, color |-> color, size |-> size,
                          startPoint |-> startPoint])
        /\ budget' = [budget EXCEPT !.starts = @ - 1]
        /\ UNCHANGED <<conn, clientVars, heapVars, logVars, foldVars, pair, mem, input, health>>

StrokeStart(c, id, color, size, startPoint) ==
    LET roomId == conn[c].room
    IN  /\ Accepts(c)
        /\ budget.starts > 0
        /\ HasRoomFor(InRoom(roomId) \ {c}, 1)
        /\ activeStrokes' = Put(activeStrokes, bufferKey(c, id),
                                [id |-> id, color |-> color, size |-> size,
                                 points |-> <<startPoint>>])
        /\ inbox' = Emit(inbox, InRoom(roomId) \ {c},
                         [type |-> "S_STROKE_START", roomId |-> roomId, userId |-> c,
                          id |-> id, color |-> color, size |-> size,
                          startPoint |-> startPoint])
        /\ budget' = [budget EXCEPT !.starts = @ - 1]
        /\ UNCHANGED <<rooms, conn, clientVars, heapVars, logVars, foldVars, pair, mem, input, health>>

\* a plausible slip: a STROKE_MOVE for an unknown stroke opens a buffer for it
StrokeMove_OpensBuffer(c, id, points) ==
    LET roomId == conn[c].room
        key == bufferKey(c, id)
    IN  /\ Accepts(c)
        /\ budget.moves > 0
        /\ HasRoomFor(InRoom(roomId) \ {c}, 1)
        /\ budget' = [budget EXCEPT !.moves = @ - 1]
        /\ activeStrokes' =
              IF Has(activeStrokes, key)
              THEN [activeStrokes EXCEPT ![key].points = @ \o points]
              ELSE Put(activeStrokes, key,
                       [id |-> id, color |-> "#000000", size |-> 5, points |-> points])
        /\ inbox' = Emit(inbox, InRoom(roomId) \ {c},
                         [type |-> "S_STROKE_MOVE", roomId |-> roomId,
                          userId |-> c, id |-> id, points |-> points])
        /\ UNCHANGED <<rooms, conn, clientVars, heapVars, logVars, foldVars, pair, mem, input, health>>

\* a plausible slip: buffer.points = msg.points instead of buffer.points.push(...)
StrokeMove_ReplacesPoints(c, id, points) ==
    LET roomId == conn[c].room
        key == bufferKey(c, id)
    IN  /\ Accepts(c)
        /\ IF ~Has(activeStrokes, key)
           THEN UNCHANGED <<activeStrokes, inbox, budget>>
           ELSE /\ budget.moves > 0
                /\ HasRoomFor(InRoom(roomId) \ {c}, 1)
                /\ budget' = [budget EXCEPT !.moves = @ - 1]
                /\ activeStrokes' = [activeStrokes EXCEPT ![key].points = points]
                /\ inbox' = Emit(inbox, InRoom(roomId) \ {c},
                                 [type |-> "S_STROKE_MOVE", roomId |-> roomId,
                                  userId |-> c, id |-> id, points |-> points])
        /\ UNCHANGED <<rooms, conn, clientVars, heapVars, logVars, foldVars, pair, mem, input, health>>

StrokeMove(c, id, points) ==
    LET roomId == conn[c].room
        key == bufferKey(c, id)
    IN  /\ Accepts(c)
        /\ IF ~Has(activeStrokes, key)
           THEN UNCHANGED <<activeStrokes, inbox, budget>>
           ELSE /\ budget.moves > 0
                /\ HasRoomFor(InRoom(roomId) \ {c}, 1)
                /\ budget' = [budget EXCEPT !.moves = @ - 1]
                /\ activeStrokes' =
                      [activeStrokes EXCEPT ![key].points = @ \o points]
                /\ inbox' = Emit(inbox, InRoom(roomId) \ {c},
                                 [type |-> "S_STROKE_MOVE", roomId |-> roomId,
                                  userId |-> c, id |-> id, points |-> points])
        /\ UNCHANGED <<rooms, conn, clientVars, heapVars, logVars, foldVars, pair, mem, input, health>>

\* a plausible slip: the stream end is relayed before the commit is broadcast
StrokeEnd_EndFirst(c, id) ==
    LET roomId == conn[c].room
        key == bufferKey(c, id)
    IN  /\ Accepts(c)
        /\ IF ~Has(activeStrokes, key)
           THEN UNCHANGED <<rooms, activeStrokes, inbox>>
           ELSE LET buffer == activeStrokes[key]
                    stroke == Stroke(buffer.id, buffer.color, buffer.size, buffer.points)
                    op == AddStrokeOp(id, stroke)
                    r == pushOperation(rooms[roomId], op)
                    opMsg == [type |-> "S_OPERATION", roomId |-> roomId,
                              operation |-> r.ret]
                    endMsg == [type |-> "S_STROKE_END", roomId |-> roomId,
                               userId |-> c, id |-> id]
                IN  /\ rooms[roomId].nextSeq <= MaxSeq
                    /\ HasRoomFor({c}, 1)
                    /\ HasRoomFor(InRoom(roomId) \ {c}, 2)
                    /\ rooms' = [rooms EXCEPT ![roomId] = r.state]
                    /\ inbox' = Emit(Emit(inbox, InRoom(roomId) \ {c}, endMsg),
                                     InRoom(roomId), opMsg)
                    /\ activeStrokes' = Remove(activeStrokes, key)
        /\ UNCHANGED <<conn, budget, clientVars, heapVars, logVars, foldVars, pair, mem, input, health>>

\* a plausible slip: no activeStrokes.delete after the commit
StrokeEnd_KeepsBuffer(c, id) ==
    LET roomId == conn[c].room
        key == bufferKey(c, id)
    IN  /\ Accepts(c)
        /\ IF ~Has(activeStrokes, key)
           THEN UNCHANGED <<rooms, activeStrokes, inbox>>
           ELSE LET buffer == activeStrokes[key]
                    stroke == Stroke(buffer.id, buffer.color, buffer.size, buffer.points)
                    op == AddStrokeOp(id, stroke)
                    r == pushOperation(rooms[roomId], op)
                    opMsg == [type |-> "S_OPERATION", roomId |-> roomId,
                              operation |-> r.ret]
                    endMsg == [type |-> "S_STROKE_END", roomId |-> roomId,
                               userId |-> c, id |-> id]
                IN  /\ rooms[roomId].nextSeq <= MaxSeq
                    /\ HasRoomFor({c}, 1)
                    /\ HasRoomFor(InRoom(roomId) \ {c}, 2)
                    /\ rooms' = [rooms EXCEPT ![roomId] = r.state]
                    /\ inbox' = Emit(Emit(inbox, InRoom(roomId), opMsg),
                                     InRoom(roomId) \ {c}, endMsg)
                    /\ UNCHANGED activeStrokes
        /\ UNCHANGED <<conn, budget, clientVars, heapVars, logVars, foldVars, pair, mem, input, health>>

\* a plausible slip: socket.to(roomId).emit for the commit broadcast, which leaves
\* the sender out
StrokeEnd_OpToOthers(c, id) ==
    LET roomId == conn[c].room
        key == bufferKey(c, id)
    IN  /\ Accepts(c)
        /\ IF ~Has(activeStrokes, key)
           THEN UNCHANGED <<rooms, activeStrokes, inbox>>
           ELSE LET buffer == activeStrokes[key]
                    stroke == Stroke(buffer.id, buffer.color, buffer.size, buffer.points)
                    op == AddStrokeOp(id, stroke)
                    r == pushOperation(rooms[roomId], op)
                    opMsg == [type |-> "S_OPERATION", roomId |-> roomId,
                              operation |-> r.ret]
                    endMsg == [type |-> "S_STROKE_END", roomId |-> roomId,
                               userId |-> c, id |-> id]
                IN  /\ rooms[roomId].nextSeq <= MaxSeq
                    /\ HasRoomFor(InRoom(roomId) \ {c}, 2)
                    /\ rooms' = [rooms EXCEPT ![roomId] = r.state]
                    /\ inbox' = Emit(Emit(inbox, InRoom(roomId) \ {c}, opMsg),
                                     InRoom(roomId) \ {c}, endMsg)
                    /\ activeStrokes' = Remove(activeStrokes, key)
        /\ UNCHANGED <<conn, budget, clientVars, heapVars, logVars, foldVars, pair, mem, input, health>>

StrokeEnd(c, id) ==
    LET roomId == conn[c].room
        key == bufferKey(c, id)
    IN  /\ Accepts(c)
        /\ IF ~Has(activeStrokes, key)
           THEN UNCHANGED <<rooms, activeStrokes, inbox>>
           ELSE LET buffer == activeStrokes[key]
                    stroke == Stroke(buffer.id, buffer.color, buffer.size, buffer.points)
                    op == AddStrokeOp(id, stroke)
                    r == pushOperation(rooms[roomId], op)
                    opMsg == [type |-> "S_OPERATION", roomId |-> roomId,
                              operation |-> r.ret]
                    endMsg == [type |-> "S_STROKE_END", roomId |-> roomId,
                               userId |-> c, id |-> id]
                IN  /\ rooms[roomId].nextSeq <= MaxSeq
                    /\ HasRoomFor({c}, 1)
                    /\ HasRoomFor(InRoom(roomId) \ {c}, 2)
                    /\ rooms' = [rooms EXCEPT ![roomId] = r.state]
                    /\ inbox' = Emit(Emit(inbox, InRoom(roomId), opMsg),
                                     InRoom(roomId) \ {c}, endMsg)
                    /\ activeStrokes' = Remove(activeStrokes, key)
        /\ UNCHANGED <<conn, budget, clientVars, heapVars, logVars, foldVars, pair, mem, input, health>>

\* a plausible slip: io.emit for the undo broadcast instead of io.to(roomId).emit
Undo_EmitToAll(c) ==
    LET roomId == conn[c].room
        r == undo(rooms[roomId])
        everyone == { d \in ConnIds : conn[d].status = "joined" }
    IN  /\ Accepts(c)
        /\ r.ret # null => HasRoomFor(everyone, 1)
        /\ rooms' = [rooms EXCEPT ![roomId] = r.state]
        /\ inbox' = IF r.ret # null
                    THEN Emit(inbox, everyone,
                              [type |-> "S_UNDO", roomId |-> roomId, operation |-> r.ret])
                    ELSE inbox
        /\ UNCHANGED <<activeStrokes, conn, budget, clientVars, heapVars, logVars, foldVars, pair, mem, input, health>>

Undo(c) ==
    LET roomId == conn[c].room
        r == undo(rooms[roomId])
    IN  /\ Accepts(c)
        /\ r.ret # null => HasRoomFor(InRoom(roomId), 1)
        /\ rooms' = [rooms EXCEPT ![roomId] = r.state]
        /\ inbox' = IF r.ret # null
                    THEN Emit(inbox, InRoom(roomId),
                              [type |-> "S_UNDO", roomId |-> roomId, operation |-> r.ret])
                    ELSE inbox
        /\ UNCHANGED <<activeStrokes, conn, budget, clientVars, heapVars, logVars, foldVars, pair, mem, input, health>>

\* a plausible slip: socket.to(roomId).emit for the redo broadcast, which leaves the
\* sender out
Redo_EmitToOthers(c) ==
    LET roomId == conn[c].room
        r == redo(rooms[roomId])
    IN  /\ Accepts(c)
        /\ r.ret # null => rooms[roomId].nextSeq <= MaxSeq /\ HasRoomFor(InRoom(roomId), 1)
        /\ rooms' = [rooms EXCEPT ![roomId] = r.state]
        /\ inbox' = IF r.ret # null
                    THEN Emit(inbox, InRoom(roomId) \ {c},
                              [type |-> "S_REDO", roomId |-> roomId, operation |-> r.ret])
                    ELSE inbox
        /\ UNCHANGED <<activeStrokes, conn, budget, clientVars, heapVars, logVars, foldVars, pair, mem, input, health>>

Redo(c) ==
    LET roomId == conn[c].room
        r == redo(rooms[roomId])
    IN  /\ Accepts(c)
        /\ r.ret # null => rooms[roomId].nextSeq <= MaxSeq /\ HasRoomFor(InRoom(roomId), 1)
        /\ rooms' = [rooms EXCEPT ![roomId] = r.state]
        /\ inbox' = IF r.ret # null
                    THEN Emit(inbox, InRoom(roomId),
                              [type |-> "S_REDO", roomId |-> roomId, operation |-> r.ret])
                    ELSE inbox
        /\ UNCHANGED <<activeStrokes, conn, budget, clientVars, heapVars, logVars, foldVars, pair, mem, input, health>>

CursorMove(c, pos) ==
    LET roomId == conn[c].room
    IN  /\ Accepts(c)
        /\ budget.cursors > 0
        /\ HasRoomFor(InRoom(roomId) \ {c}, 1)
        /\ budget' = [budget EXCEPT !.cursors = @ - 1]
        /\ inbox' = Emit(inbox, InRoom(roomId) \ {c},
                         [type |-> "S_CURSOR", roomId |-> roomId, userId |-> c,
                          x |-> pos.x, y |-> pos.y, color |-> "#000000"])
        /\ UNCHANGED <<rooms, activeStrokes, conn, clientVars, heapVars, logVars, foldVars, pair, mem, input, health>>

\* a plausible slip: the disconnect handler without the cleanup loop
Disconnect_KeepsBuffers(c) ==
    /\ conn[c].status = "joined"
    /\ conn' = [conn EXCEPT ![c].status = "closed"]
    /\ inbox' = [inbox EXCEPT ![c] = <<>>]
    /\ UNCHANGED <<rooms, activeStrokes, budget, clientVars, heapVars, logVars,
                   foldVars, pair, mem, input, health>>

\* socket.on('disconnect'): the socket's buffers are dropped; the socket has left the
\* room, and what was emitted to it and not yet handled is lost
Disconnect(c) ==
    /\ conn[c].status = "joined"
    /\ conn' = [conn EXCEPT ![c].status = "closed"]
    /\ activeStrokes' =
           [k \in { k \in DOMAIN activeStrokes : ~startsWith(k, c \o ":") } |->
               activeStrokes[k]]
    /\ inbox' = [inbox EXCEPT ![c] = <<>>]
    /\ syncTop' = NoteSync(c, 0)
    /\ UNCHANGED <<rooms, budget, clientVars, instances, connState, logVars, foldVars,
                   pair, mem, input, health>>

\* the color a client draws with: one client keeps the default brush color, the
\* other has picked the eraser's
currentColor(c) == IF c = "c1" THEN "#000000" ELSE "#f0f0f0"

\* room ids a client message may carry
MsgRoomIds == RoomIds \cup {NoRoomId}

\* socket.on('message'): the room check, then the switch on msg.type.  The handler
\* runs on the server: no branch of it touches a socket's room membership or any
\* client's state.
OnMessage(c, msgRoomId) ==
    /\ Accepts(c)
    /\ UNCHANGED <<conn, clientVars>>
    /\ IF msgRoomId # conn[c].room
       THEN WrongRoomMessage(c, msgRoomId)
       ELSE \/ \E id \in StrokeIds, size \in Sizes, p \in StartPoints :
                   StrokeStart(c, id, currentColor(c), size, p)
            \/ \E id \in StrokeIds, points \in PointBatches : StrokeMove(c, id, points)
            \/ \E id \in StrokeIds : StrokeEnd(c, id)
            \/ Undo(c)
            \/ Redo(c)
            \/ \E pos \in CursorPositions : CursorMove(c, pos)

----------------------------------------------------------------------------
(* client/state/OperationStore.ts                                          *)

setOperations(operations, ops) == ops

addOperation(operations, op) == Append(operations, op)

removeOperation(operations, id) == SelectSeq(operations, LAMBDA op : op.id # id)

----------------------------------------------------------------------------
(* client/app.ts with client/net/SocketClient.ts: one handler per server   *)
(* message type, run on the oldest message emitted to the socket.          *)

Delivers(c, type) ==
    /\ conn[c].status = "joined"
    /\ inbox[c] # <<>>
    /\ Head(inbox[c]).type = type

Consume(c) == inbox' = [inbox EXCEPT ![c] = Tail(@)]

ClientOnSync(c) ==
    /\ Delivers(c, "S_SYNC")
    /\ mirror' = [mirror EXCEPT ![c] = setOperations(@, Head(inbox[c]).operations)]
    /\ Consume(c)
    /\ UNCHANGED <<rooms, activeStrokes, conn, budget, remoteStrokes, remoteCursors,
                   lastSeq, heapVars, logVars, foldVars, pair, mem, input, health>>

ClientOnOperation(c) ==
    /\ Delivers(c, "S_OPERATION")
    /\ mirror' = [mirror EXCEPT ![c] = addOperation(@, Head(inbox[c]).operation)]
    /\ lastSeq' = [lastSeq EXCEPT ![c] = Head(inbox[c]).operation.seq]
    /\ Consume(c)
    /\ UNCHANGED <<rooms, activeStrokes, conn, budget, remoteStrokes, remoteCursors,
                   heapVars, logVars, foldVars, pair, mem, input, health>>

ClientOnUndo(c) ==
    /\ Delivers(c, "S_UNDO")
    /\ mirror' = [mirror EXCEPT ![c] = removeOperation(@, Head(inbox[c]).operation.id)]
    /\ Consume(c)
    /\ UNCHANGED <<rooms, activeStrokes, conn, budget, remoteStrokes, remoteCursors,
                   lastSeq, heapVars, logVars, foldVars, pair, mem, input, health>>

ClientOnRedo(c) ==
    /\ Delivers(c, "S_REDO")
    /\ mirror' = [mirror EXCEPT ![c] = addOperation(@, Head(inbox[c]).operation)]
    /\ lastSeq' = [lastSeq EXCEPT ![c] = Head(inbox[c]).operation.seq]
    /\ Consume(c)
    /\ UNCHANGED <<rooms, activeStrokes, conn, budget, remoteStrokes, remoteCursors,
                   heapVars, logVars, foldVars, pair, mem, input, health>>

ClientOnStrokeStart(c) ==
    LET msg == Head(inbox[c])
    IN  /\ Delivers(c, "S_STROKE_START")
        /\ remoteStrokes' = [remoteStrokes EXCEPT ![c] =
               Put(@, msg.id, [points |-> <<msg.startPoint>>,
                               color |-> msg.color, size |-> msg.size])]
        /\ Consume(c)
        /\ UNCHANGED <<rooms, activeStrokes, conn, budget, mirror, remoteCursors,
                       lastSeq, heapVars, logVars, foldVars, pair, mem, input, health>>

ClientOnStrokeMove(c) ==
    LET msg == Head(inbox[c])
    IN  /\ Delivers(c, "S_STROKE_MOVE")
        /\ remoteStrokes' =
               IF Has(remoteStrokes[c], msg.id)
               THEN [remoteStrokes EXCEPT ![c][msg.id].points = @ \o msg.points]
               ELSE remoteStrokes
        /\ Consume(c)
        /\ UNCHANGED <<rooms, activeStrokes, conn, budget, mirror, remoteCursors,
                       lastSeq, heapVars, logVars, foldVars, pair, mem, input, health>>

ClientOnStrokeEnd(c) ==
    LET msg == Head(inbox[c])
    IN  /\ Delivers(c, "S_STROKE_END")
        /\ remoteStrokes' = [remoteStrokes EXCEPT ![c] = Remove(@, msg.id)]
        /\ Consume(c)
        /\ UNCHANGED <<rooms, activeStrokes, conn, budget, mirror, remoteCursors,
                       lastSeq, heapVars, logVars, foldVars, pair, mem, input, health>>

ClientOnCursorMove(c) ==
    LET msg == Head(inbox[c])
    IN  /\ Delivers(c, "S_CURSOR")
        /\ remoteCursors' = [remoteCursors EXCEPT ![c] =
               Put(@, msg.userId, [x |-> msg.x, y |-> msg.y, color |-> msg.color])]
        /\ Consume(c)
        /\ UNCHANGED <<rooms, activeStrokes, conn, budget, mirror, remoteStrokes,
                       lastSeq, heapVars, logVars, foldVars, pair, mem, input, health>>

----------------------------------------------------------------------------
(* Spec: the server and its clients                                        *)

\* the system has no DrawingState under direct calls, no fold input and no second
\* run: the variables of the other specifications hold nothing
NoOtherVars ==
    /\ ds = <<>> /\ calls = 0 /\ lastCall = <<>> /\ prevCall = <<>> /\ issued = <<>>
    /\ past = <<>> /\ snapshot = <<>>
    /\ foldIn = <<>> /\ foldOut = <<>>
    /\ pair = <<>> /\ mem = <<>>
    /\ input = <<>> /\ health = <<>>

Init == NoOtherVars /\ InitSysVars /\ syncTop = NoSyncTop /\ budget \in Budgets

\* room ids a socket's handshake may carry: the first socket names r1 (room ids are
\* interchangeable), the second names the same room or another one
Handshakes(c) == IF c = "c1" THEN {"r1"} ELSE RoomIds

ServerStep ==
    \E c \in ConnIds :
        \/ \E roomId \in Handshakes(c) : Connect(c, roomId)
        \/ ConnectNoRoom(c)
        \/ \E msgRoomId \in MsgRoomIds : OnMessage(c, msgRoomId)
        \/ Disconnect(c)

ClientStep(c) ==
    \/ ClientOnSync(c)
    \/ ClientOnOperation(c)
    \/ ClientOnUndo(c)
    \/ ClientOnRedo(c)
    \/ ClientOnStrokeStart(c)
    \/ ClientOnStrokeMove(c)
    \/ ClientOnStrokeEnd(c)
    \/ ClientOnCursorMove(c)

Next == ServerStep \/ \E c \in ConnIds : ClientStep(c)

Spec == Init /\ [][Next]_vars

\* socket.io hands every emitted message to the client's listeners: a client with a
\* pending message eventually runs the handler for it
SpecFair == Spec /\ \A c \in ConnIds : WF_vars(ClientStep(c))

\* the system with, per socket, the largest seq of the SYNC emitted to it on record
InitSync ==
    /\ NoOtherVars /\ InitSysVars /\ budget \in Budgets
    /\ syncTop = [c \in ConnIds |-> 0]

SpecSync == InitSync /\ [][Next]_vars

----------------------------------------------------------------------------
(* client/input/InputHandler.ts and its callbacks in client/app.ts         *)

JITTER_THRESHOLD == 2

\* number of events (pointer events and animation frames) dispatched in one run
MaxInputEvents == 6

\* the mouse and the pen are the primary pointers of their pointer types, a second
\* finger on the screen is not primary
Pointers == {"mouse", "pen", "touch2"}

isPrimary(p) == p # "touch2"

\* where on the target's x axis a pointer event may be
InputXs == {0, 1, 3}

createPoint(x) == [x |-> x, y |-> 0, p |-> 5, t |-> 0]

\* getDistance(p1, p2) < d, without the square root
getDistanceBelow(p1, p2, d) ==
    LET dx == p1.x - p2.x
        dy == p1.y - p2.y
    IN  dx * dx + dy * dy < d * d

uuidv4(n) == [type |-> "uuid", n |-> n]

onStart(app, points) ==
    LET id == uuidv4(app.uuids + 1)
        started == Append(app.sent, [type |-> "C_STROKE_START", id |-> id,
                                     startPoint |-> points[1]])
    IN  [currentStrokeId |-> id,
         uuids |-> app.uuids + 1,
         sent |-> IF Len(points) > 1
                  THEN Append(started, [type |-> "C_STROKE_MOVE", id |-> id,
                                        points |-> Tail(points)])
                  ELSE started]

onMove(app, points) ==
    IF app.currentStrokeId = null THEN app
    ELSE [app EXCEPT !.sent = Append(@, [type |-> "C_STROKE_MOVE",
                                         id |-> app.currentStrokeId,
                                         points |-> points])]

onEnd(app) ==
    IF app.currentStrokeId = null THEN app
    ELSE [app EXCEPT !.sent = Append(@, [type |-> "C_STROKE_END",
                                         id |-> app.currentStrokeId]),
                     !.currentStrokeId = null]

\* requestAnimationFrame(this.loop): a new handle, the callback is pending
requestAnimationFrame(h) ==
    LET frame == [type |-> "frame", n |-> h.requested + 1]
    IN  [h EXCEPT !.rafId = frame, !.frames = @ \cup {frame}, !.requested = @ + 1]

\* setPointerCapture only changes which element later events of the pointer are
\* dispatched to: it is not modelled
handlePointerDown(h, p, x) ==
    IF ~isPrimary(p) THEN h
    ELSE LET point == createPoint(x)
         IN  requestAnimationFrame(
                 [h EXCEPT !.isDrawing = TRUE,
                           !.lastPoint = point,
                           !.called = Append(@, [cb |-> "onStart", points |-> <<point>>]),
                           !.app = onStart(@, <<point>>)])

handlePointerMove(h, x) ==
    IF ~h.isDrawing THEN h
    ELSE LET point == createPoint(x)
         IN  IF h.lastPoint # null /\ getDistanceBelow(h.lastPoint, point, JITTER_THRESHOLD)
             THEN h
             ELSE [h EXCEPT !.activePoints = Append(@, point), !.lastPoint = point]

\* the flush of both handlePointerUp and loop: onMove with the buffered points
Flush(h) ==
    IF h.activePoints # <<>>
    THEN [h EXCEPT !.called = Append(@, [cb |-> "onMove", points |-> h.activePoints]),
                   !.app = onMove(@, h.activePoints),
                   !.activePoints = <<>>]
    ELSE h

handlePointerUp(h) ==
    IF ~h.isDrawing THEN h
    ELSE LET flushed == Flush([h EXCEPT !.isDrawing = FALSE])
         IN  [flushed EXCEPT !.called = Append(@, [cb |-> "onEnd", points |-> <<>>]),
                             !.app = onEnd(@),
                             !.frames = IF h.rafId # null THEN @ \ {h.rafId} ELSE @,
                             !.rafId = null,
                             !.lastPoint = null]

loop(h) ==
    IF ~h.isDrawing THEN h
    ELSE requestAnimationFrame(Flush(h))

\* the browser dispatches pointerdown for a pointer that is not held down
PointerDown(p, x) ==
    /\ input.events < MaxInputEvents
    /\ p \notin input.down
    /\ input' = [handlePointerDown(input, p, x) EXCEPT !.down = @ \cup {p},
                                                       !.events = @ + 1]
    /\ UNCHANGED <<logVars, foldVars, sysVars, pair, mem, health>>

\* pointermove is dispatched for pointers held down and for hovering ones
PointerMove(p, x) ==
    /\ input.events < MaxInputEvents
    /\ input' = [handlePointerMove(input, x) EXCEPT !.events = @ + 1]
    /\ UNCHANGED <<logVars, foldVars, sysVars, pair, mem, health>>

\* pointerup or pointercancel of a pointer held down
PointerUp(p) ==
    /\ input.events < MaxInputEvents
    /\ p \in input.down
    /\ input' = [handlePointerUp(input) EXCEPT !.down = @ \ {p}, !.events = @ + 1]
    /\ UNCHANGED <<logVars, foldVars, sysVars, pair, mem, health>>

\* pointerleave of a hovering pointer: the same listener as pointerup
PointerLeave(p) ==
    /\ input.events < MaxInputEvents
    /\ p \notin input.down
    /\ input' = [handlePointerUp(input) EXCEPT !.events = @ + 1]
    /\ UNCHANGED <<logVars, foldVars, sysVars, pair, mem, health>>

\* the handles requestAnimationFrame can have returned in one run
Frames == { [type |-> "frame", n |-> n] : n \in 1..MaxInputEvents }

\* the browser runs a requested animation frame callback
AnimationFrame(f) ==
    /\ input.events < MaxInputEvents
    /\ f \in input.frames
    /\ input' = [loop([input EXCEPT !.frames = @ \ {f}]) EXCEPT !.events = @ + 1]
    /\ UNCHANGED <<logVars, foldVars, sysVars, pair, mem, health>>

InitInput == InitLogVars /\ InitFoldVars /\ InitPairVars /\ InitSysVars /\ budget = NoBudget

NextInput ==
    \/ \E p \in Pointers : \E x \in InputXs : PointerDown(p, x)
    \/ \E p \in Pointers : \E x \in InputXs : PointerMove(p, x)
    \/ \E p \in Pointers : PointerUp(p)
    \/ \E p \in Pointers : PointerLeave(p)
    \/ \E f \in Frames : AnimationFrame(f)

SpecInput == InitInput /\ [][NextInput]_vars

----------------------------------------------------------------------------
(* client/app.ts: HealthCheckService                                       *)

maxRetries == 10
baseDelay == 1000
maxDelay == 30000

RECURSIVE Pow2(_)
Pow2(n) == IF n = 0 THEN 1 ELSE 2 * Pow2(n - 1)

Min(a, b) == IF a <= b THEN a ELSE b

\* Math.random() * 0.3, in percent: no jitter, or nearly all of it
Jitters == {0, 29}

calculateDelay(currentAttempt, jitter) ==
    LET exponential == Min(baseDelay * Pow2(currentAttempt), maxDelay)
    IN  exponential + (exponential * jitter) \div 100

\* how one health check can end: fetch rejects (network error or the 5 s timeout),
\* the response is not ok, its body is no JSON, its status is not 'ok', or it is ok
\* with status 'ok'
Outcomes == {"rejected", "notOk", "badJson", "notReady", "ready"}

\* the head of the while loop: another fetch, or the loop is left and the call returns
LoopHead(h) ==
    IF h.currentAttempt < maxRetries
    THEN [h EXCEPT !.at = "fetch", !.requests = @ + 1]
    ELSE [h EXCEPT !.at = "returned"]

\* app.ts calls waitForServer once on the service it has constructed
WaitForServer ==
    /\ health.at = "constructed"
    /\ health' = LoopHead(health)
    /\ UNCHANGED <<logVars, foldVars, sysVars, pair, mem, input>>

\* a plausible slip: the retry limit compared with > instead of >=
FetchSettles_RetriesOnceMore(outcome, jitter) ==
    /\ health.at = "fetch"
    /\ health' =
           IF outcome = "ready"
           THEN [health EXCEPT !.at = "returned", !.outcome = outcome]
           ELSE LET currentAttempt == health.currentAttempt + 1
                IN  [health EXCEPT
                         !.currentAttempt = currentAttempt,
                         !.outcome = outcome,
                         !.delay = calculateDelay(currentAttempt, jitter),
                         !.at = IF currentAttempt > maxRetries THEN "thrown" ELSE "sleep"]
    /\ UNCHANGED <<logVars, foldVars, sysVars, pair, mem, input>>

\* the awaited fetch settles: the call returns, or the catch block counts the
\* attempt and throws or starts the retry timer
FetchSettles(outcome, jitter) ==
    /\ health.at = "fetch"
    /\ health' =
           IF outcome = "ready"
           THEN [health EXCEPT !.at = "returned", !.outcome = outcome]
           ELSE LET currentAttempt == health.currentAttempt + 1
                IN  [health EXCEPT
                         !.currentAttempt = currentAttempt,
                         !.outcome = outcome,
                         !.delay = calculateDelay(currentAttempt, jitter),
                         !.at = IF currentAttempt >= maxRetries THEN "thrown" ELSE "sleep"]
    /\ UNCHANGED <<logVars, foldVars, sysVars, pair, mem, input>>

\* the retry timer fires: back to the head of the loop
TimerFires ==
    /\ health.at = "sleep"
    /\ health' = LoopHead(health)
    /\ UNCHANGED <<logVars, foldVars, sysVars, pair, mem, input>>

InitHealth == InitLogVars /\ InitFoldVars /\ InitPairVars /\ InitSysVars /\ budget = NoBudget

NextHealth ==
    \/ WaitForServer
    \/ \E outcome \in Outcomes : \E jitter \in Jitters : FetchSettles(outcome, jitter)
    \/ TimerFires

SpecHealth == InitHealth /\ [][NextHealth]_vars

\* app.ts calls waitForServer at startup, every fetch settles (it is aborted after
\* 5 s at the latest) and every timer fires
SpecHealthFair ==
    /\ SpecHealth
    /\ WF_vars(WaitForServer)
    /\ WF_vars(\E outcome \in Outcomes : \E jitter \in Jitters : FetchSettles(outcome, jitter))
    /\ WF_vars(TimerFires)

----------------------------------------------------------------------------
(* SpecLog: a freshly created DrawingState under any sequence of calls     *)

\* draft operations a caller of pushOperation may pass
DraftOps ==
    { AddStrokeOp("s1", Stroke("s1", "#000000", 5, <<P0>>)),
      AddStrokeOp("s2", Stroke("s2", "#f0f0f0", 5, <<P0, P1>>)),
      AddStrokeOp("s2", Stroke("s1", "#f0f0f0", 5, <<P1>>)),
      RemoveStrokeOp("s2", "s1") }

Record(name, r) ==
    /\ ds' = r.state
    /\ calls' = calls + 1
    /\ prevCall' = lastCall
    /\ lastCall' = [name |-> name, ret |-> r.ret]
    /\ issued' = IF name \in {"pushOperation", "redo"} /\ r.ret # null
                 THEN Append(issued, r.ret.seq)
                 ELSE issued
    /\ past' = Append(past, [name |-> name, ok |-> r.ret # null, before |-> ds])
    /\ UNCHANGED snapshot

CallPushOperation ==
    /\ calls < MaxCalls
    /\ \E op \in DraftOps : Record("pushOperation", pushOperation(ds, op))
    /\ UNCHANGED <<foldVars, sysVars, pair, mem, input, health>>

CallUndo ==
    /\ calls < MaxCalls
    /\ Record("undo", undo(ds))
    /\ UNCHANGED <<foldVars, sysVars, pair, mem, input, health>>

CallRedo ==
    /\ calls < MaxCalls
    /\ Record("redo", redo(ds))
    /\ UNCHANGED <<foldVars, sysVars, pair, mem, input, health>>

InitLog == InitLogVars /\ InitFoldVars /\ InitPairVars /\ InitSysVars /\ budget = NoBudget

NextLog == CallPushOperation \/ CallUndo \/ CallRedo

SpecLog == InitLog /\ [][NextLog]_vars

----------------------------------------------------------------------------
(* SpecFold: both folds applied to one operation sequence                  *)

\* draft operations of the folded sequences: adds that collide on the stroke id,
\* an add whose operation id differs from its stroke id, removes of both strokes
FoldDrafts ==
    DraftOps \cup
    { AddStrokeOp("s1", Stroke("s1", "#f0f0f0", 5, <<P1, P0>>)),
      RemoveStrokeOp("s1", "s2") }

RECURSIVE SeqsUpTo(_, _)
SeqsUpTo(S, n) ==
    IF n = 0 THEN {<<>>}
    ELSE LET shorter == SeqsUpTo(S, n - 1)
         IN  shorter \cup { Append(s, e) : s \in shorter, e \in S }

Ascending(s) == \A i \in 1..(Len(s) - 1) : s[i] < s[i + 1]

\* what a log or a mirror may hold: operations with strictly ascending seq
FoldInputs ==
    { [i \in 1..Len(d) |-> WithSeq(d[i], sq[i])] :
        <<d, sq>> \in { <<d, sq>> \in SeqsUpTo(FoldDrafts, MaxFoldLen)
                                     \X SeqsUpTo(1..(MaxFoldLen + 1), MaxFoldLen) :
                            Len(d) = Len(sq) /\ Ascending(sq) } }

InitFold ==
    /\ InitLogVars
    /\ InitPairVars
    /\ InitSysVars
    /\ budget = NoBudget
    /\ foldIn \in FoldInputs
    /\ foldOut = null

RunFolds ==
    /\ foldOut = null
    /\ foldOut' = [type |-> "folded",
                   server |-> computeVisibleStrokes([operations |-> foldIn,
                                                     redoStack |-> <<>>,
                                                     nextSeq |-> 1]),
                   client |-> renderHistory(foldIn)]
    /\ UNCHANGED <<foldIn, logVars, sysVars, pair, mem, input, health>>

NextFold == RunFolds

SpecFold == InitFold /\ [][NextFold]_vars

----------------------------------------------------------------------------
(* SpecPair: two runs of the server, one socket in one room each, fed the   *)
(* same message types with field values chosen independently               *)

\* a plausible slip: a seq supplied with the message is taken, seq: msg.seq ?? nextSeq++
HandleMessage_TrustsSeq(server, socketId, msg) ==
    LET key == bufferKey(socketId, msg.id)
        quiet == [server |-> server, out |-> 0]
    IN  CASE msg.type = "C_STROKE_START" ->
                 [server |-> [server EXCEPT !.activeStrokes =
                                  Put(@, key, [id |-> msg.id, color |-> msg.color,
                                               size |-> msg.size,
                                               points |-> <<msg.startPoint>>])],
                  out |-> 0]
          [] msg.type = "C_STROKE_MOVE" ->
                 IF ~Has(server.activeStrokes, key) THEN quiet
                 ELSE [server |-> [server EXCEPT !.activeStrokes[key].points =
                                       @ \o msg.points],
                       out |-> 0]
          [] msg.type = "C_STROKE_END" ->
                 IF ~Has(server.activeStrokes, key) THEN quiet
                 ELSE LET buffer == server.activeStrokes[key]
                          stroke == Stroke(buffer.id, buffer.color, buffer.size,
                                           buffer.points)
                          r == pushOperation(server.state, AddStrokeOp(msg.id, stroke))
                          taken == IF "seq" \in DOMAIN msg THEN msg.seq ELSE r.ret.seq
                      IN  [server |-> [state |-> [r.state EXCEPT
                                           !.operations[Len(r.state.operations)] =
                                               WithSeq(r.ret, taken)],
                                       activeStrokes |-> Remove(server.activeStrokes, key)],
                           out |-> taken]
          [] msg.type = "C_UNDO" ->
                 LET r == undo(server.state)
                 IN  [server |-> [server EXCEPT !.state = r.state],
                      out |-> IF r.ret # null THEN r.ret.seq ELSE 0]
          [] msg.type = "C_REDO" ->
                 LET r == redo(server.state)
                 IN  [server |-> [server EXCEPT !.state = r.state],
                      out |-> IF r.ret # null THEN r.ret.seq ELSE 0]
          [] OTHER -> quiet

\* the message handler of one socket as a function of the server's state: the state
\* after the message, and the seq of the operation it broadcast (0: no operation)
\* a plausible slip: the operation gets an id of its own instead of the stroke's
HandleMessage_OwnOpId(server, socketId, msg) ==
    LET key == bufferKey(socketId, msg.id)
        quiet == [server |-> server, out |-> 0]
    IN  CASE msg.type = "C_STROKE_START" ->
                 [server |-> [server EXCEPT !.activeStrokes =
                                  Put(@, key, [id |-> msg.id, color |-> msg.color,
                                               size |-> msg.size,
                                               points |-> <<msg.startPoint>>])],
                  out |-> 0]
          [] msg.type = "C_STROKE_MOVE" ->
                 IF ~Has(server.activeStrokes, key) THEN quiet
                 ELSE [server |-> [server EXCEPT !.activeStrokes[key].points =
                                       @ \o msg.points],
                       out |-> 0]
          [] msg.type = "C_STROKE_END" ->
                 IF ~Has(server.activeStrokes, key) THEN quiet
                 ELSE LET buffer == server.activeStrokes[key]
                          stroke == Stroke(buffer.id, buffer.color, buffer.size,
                                           buffer.points)
                          r == pushOperation(server.state, AddStrokeOp(key, stroke))
                      IN  [server |-> [state |-> r.state,
                                       activeStrokes |-> Remove(server.activeStrokes, key)],
                           out |-> r.ret.seq]
          [] msg.type = "C_UNDO" ->
                 LET r == undo(server.state)
                 IN  [server |-> [server EXCEPT !.state = r.state],
                      out |-> IF r.ret # null THEN r.ret.seq ELSE 0]
          [] msg.type = "C_REDO" ->
                 LET r == redo(server.state)
                 IN  [server |-> [server EXCEPT !.state = r.state],
                      out |-> IF r.ret # null THEN r.ret.seq ELSE 0]
          [] OTHER -> quiet

HandleMessage(server, socketId, msg) ==
    LET key == bufferKey(socketId, msg.id)
        quiet == [server |-> server, out |-> 0]
    IN  CASE msg.type = "C_STROKE_START" ->
                 [server |-> [server EXCEPT !.activeStrokes =
                                  Put(@, key, [id |-> msg.id, color |-> msg.color,
                                               size |-> msg.size,
                                               points |-> <<msg.startPoint>>])],
                  out |-> 0]
          [] msg.type = "C_STROKE_MOVE" ->
                 IF ~Has(server.activeStrokes, key) THEN quiet
                 ELSE [server |-> [server EXCEPT !.activeStrokes[key].points =
                                       @ \o msg.points],
                       out |-> 0]
          [] msg.type = "C_STROKE_END" ->
                 IF ~Has(server.activeStrokes, key) THEN quiet
                 ELSE LET buffer == server.activeStrokes[key]
                          stroke == Stroke(buffer.id, buffer.color, buffer.size,
                                           buffer.points)
                          r == pushOperation(server.state, AddStrokeOp(msg.id, stroke))
                      IN  [server |-> [state |-> r.state,
                                       activeStrokes |-> Remove(server.activeStrokes, key)],
                           out |-> r.ret.seq]
          [] msg.type = "C_UNDO" ->
                 LET r == undo(server.state)
                 IN  [server |-> [server EXCEPT !.state = r.state],
                      out |-> IF r.ret # null THEN r.ret.seq ELSE 0]
          [] msg.type = "C_REDO" ->
                 LET r == redo(server.state)
                 IN  [server |-> [server EXCEPT !.state = r.state],
                      out |-> IF r.ret # null THEN r.ret.seq ELSE 0]
          [] OTHER -> quiet

ClientMessageTypes ==
    {"C_STROKE_START", "C_STROKE_MOVE", "C_STROKE_END", "C_UNDO", "C_REDO", "C_CURSOR_MOVE"}

\* the messages of one type a client may send; a STROKE_END may carry a seq field of
\* the client's making
ClientMessages(type) ==
    CASE type = "C_STROKE_START" ->
             { [type |-> type, id |-> id, color |-> color, size |-> size,
                startPoint |-> p] :
                   id \in StrokeIds, color \in Colors, size \in Sizes, p \in StartPoints }
      [] type = "C_STROKE_MOVE" ->
             { [type |-> type, id |-> id, points |-> points] :
                   id \in StrokeIds, points \in PointBatches }
      [] type = "C_STROKE_END" ->
             { [type |-> type, id |-> id] : id \in StrokeIds } \cup
             { [type |-> type, id |-> id, seq |-> 7] : id \in StrokeIds }
      [] type = "C_CURSOR_MOVE" ->
             { [type |-> type, x |-> pos.x, y |-> pos.y] : pos \in CursorPositions }
      [] OTHER -> { [type |-> type] }

\* both messages name the same stroke, or neither names one
SameId(msgA, msgB) == ("id" \in DOMAIN msgA) => msgA.id = msgB.id

\* one message of the same type to each run, the field values chosen independently
FeedBoth ==
    /\ Len(pair.outA) < MaxPairLen
    /\ \E type \in ClientMessageTypes :
           \E msgA \in ClientMessages(type), msgB \in ClientMessages(type) :
               LET ra == HandleMessage(pair.a, "c1", msgA)
                   rb == HandleMessage(pair.b, "c1", msgB)
               IN  pair' = [a |-> ra.server, b |-> rb.server,
                            outA |-> Append(pair.outA, ra.out),
                            outB |-> Append(pair.outB, rb.out),
                            sameIds |-> pair.sameIds /\ SameId(msgA, msgB)]
    /\ UNCHANGED <<logVars, foldVars, sysVars, mem, input, health>>

InitPair == InitLogVars /\ InitFoldVars /\ InitPairVars /\ InitSysVars /\ budget = NoBudget

NextPair == FeedBoth

SpecPair == InitPair /\ [][NextPair]_vars

----------------------------------------------------------------------------
(* SpecRun: one run of the server (the first of the pair), one room, fed    *)
(* messages by both sockets                                                *)

FeedOne ==
    /\ Len(pair.outA) < MaxRunLen
    /\ \E socketId \in ConnIds, type \in ClientMessageTypes :
           \E msg \in ClientMessages(type) :
               LET r == HandleMessage(pair.a, socketId, msg)
               IN  pair' = [pair EXCEPT !.a = r.server, !.outA = Append(@, r.out)]
    /\ UNCHANGED <<logVars, foldVars, sysVars, mem, input, health>>

NextRun == FeedOne

SpecRun == InitPair /\ [][NextRun]_vars

----------------------------------------------------------------------------
(* Claims on the DrawingState (SpecLog)                                    *)

\* C1: the seq values returned by the successful pushOperation and redo calls of a
\* fresh DrawingState are strictly increasing in call order, the first one is 1,
\* and no two of them are equal.
C1_SeqStrictlyIncreasingFromOne ==
    /\ Len(issued) > 0 => issued[1] = 1
    /\ \A i, j \in 1..Len(issued) : i < j => issued[i] < issued[j]

\* a redo has just returned a re-sequenced operation after earlier pushes
C1_Witness ==
    /\ Len(issued) >= 3
    /\ lastCall.name = "redo"
    /\ lastCall.ret # null

\* C3: in every reachable state the operations list is sorted by strictly
\* ascending seq.
C3_OperationsSortedBySeq ==
    \A i \in 1..(Len(ds.operations) - 1) :
        ds.operations[i].seq < ds.operations[i + 1].seq

\* a redo has put an operation back behind another one
C3_Witness ==
    /\ Len(ds.operations) >= 2
    /\ lastCall.name = "redo"
    /\ lastCall.ret # null

\* C4: undo() on a non-empty log immediately followed by redo() returns two
\* operations with the same id and payload; the redo result's seq differs from and
\* is greater than the undo result's, and is greater than every seq issued before.
C4_UndoRedoNewSeq ==
    (prevCall.name = "undo" /\ prevCall.ret # null /\ lastCall.name = "redo") =>
        /\ lastCall.ret # null
        /\ lastCall.ret.id = prevCall.ret.id
        /\ Payload(lastCall.ret) = Payload(prevCall.ret)
        /\ lastCall.ret.seq # prevCall.ret.seq
        /\ lastCall.ret.seq > prevCall.ret.seq
        /\ \A i \in 1..(Len(issued) - 1) : lastCall.ret.seq > issued[i]

\* undo then redo, with another operation issued in between the two seqs
C4_Witness ==
    /\ prevCall.name = "undo"
    /\ prevCall.ret # null
    /\ lastCall.name = "redo"
    /\ lastCall.ret # null
    /\ lastCall.ret.seq > prevCall.ret.seq + 1

\* C5: every pushOperation leaves redoStack empty, and a redo() called right after
\* it returns null and changes neither operations nor nextSeq (nor redoStack).
C5_PushClearsRedo ==
    /\ [](lastCall.name = "pushOperation" => ds.redoStack = <<>>)
    /\ [][(lastCall.name = "pushOperation" /\ calls' = calls + 1
                /\ lastCall'.name = "redo") =>
              (lastCall'.ret = null /\ ds' = ds)]_vars

\* two operations were undone, then one pushed, then redo returned null
C5_Witness ==
    /\ prevCall.name = "pushOperation"
    /\ lastCall.name = "redo"
    /\ lastCall.ret = null
    /\ Len(ds.operations) = 1
    /\ ds.nextSeq = 4

\* C6: undo() on a non-empty log removes exactly the last element of operations,
\* pushes it onto redoStack and returns it unchanged (id, payload, seq); the
\* earlier elements of operations and nextSeq are unchanged.
C6_UndoPopsTail ==
    [][(calls' = calls + 1 /\ lastCall'.name = "undo" /\ Len(ds.operations) > 0) =>
          LET n == Len(ds.operations)
          IN  /\ ds'.operations = SubSeq(ds.operations, 1, n - 1)
              /\ ds'.redoStack = Append(ds.redoStack, ds.operations[n])
              /\ lastCall'.ret = ds.operations[n]
              /\ ds'.nextSeq = ds.nextSeq]_vars

\* an undo returned the tail and left an earlier element in place
C6_Witness ==
    /\ lastCall.name = "undo"
    /\ lastCall.ret # null
    /\ Len(ds.operations) >= 1
    /\ Len(ds.redoStack) >= 2

----------------------------------------------------------------------------
(* Claims on the server and its clients (Spec, SpecFair)                   *)

Joined(c) == conn[c].status = "joined"

LogOf(c) == rooms[conn[c].room].operations

LogMsgTypes == {"S_SYNC", "S_OPERATION", "S_UNDO", "S_REDO"}

\* c has handled its SYNC and every commit, undo and redo broadcast emitted to it
CaughtUp(c) ==
    /\ Joined(c)
    /\ \A i \in 1..Len(inbox[c]) : inbox[c][i].type \notin LogMsgTypes

SeqsOf(ops) == [i \in 1..Len(ops) |-> ops[i].seq]

\* C2: a connection that got SYNC on joining and then applied, in delivery order,
\* every commit, undo and redo broadcast sent to the room since holds exactly the
\* server's operations list of the room (same operations, order and seq values).
C2_MirrorEqualsLog ==
    \A c \in ConnIds : CaughtUp(c) => mirror[c] = LogOf(c)

\* seq values of the commit and redo broadcasts pending for c, in delivery order
PendingSeqs(c) ==
    SeqsOf([i \in 1..Len(SelectSeq(inbox[c],
                   LAMBDA m : m.type \in {"S_OPERATION", "S_REDO"})) |->
               SelectSeq(inbox[c],
                   LAMBDA m : m.type \in {"S_OPERATION", "S_REDO"})[i].operation])

\* C7: every connection in a room gets the room's commit and redo broadcasts in
\* strictly increasing seq order: the seq of the latest one it handled, then the seqs
\* of those pending for it in delivery order, strictly ascend.  (An undo broadcast
\* is not bound by this: see the witness.)
C7_CommitRedoSeqOrder ==
    \A c \in ConnIds : Joined(c) => Ascending(<<lastSeq[c]>> \o PendingSeqs(c))

\* a connection that handled a commit of seq 2 is about to handle an undo broadcast
\* carrying the lower seq 1
C7_Witness ==
    \E c \in ConnIds :
        /\ Joined(c)
        /\ inbox[c] # <<>>
        /\ Head(inbox[c]).type = "S_UNDO"
        /\ Head(inbox[c]).operation.seq < lastSeq[c]

\* C8: under fair delivery every operation of a room's log is eventually in the
\* mirror of every connection that stays in the room, unless undone first; and
\* once the clients stop sending, every mirror equals the server log for good.
C8_MirrorsConverge ==
    /\ \A c \in ConnIds : \A n \in 1..MaxSeq :
           (Joined(c) /\ n \in { LogOf(c)[i].seq : i \in 1..Len(LogOf(c)) })
               ~> \/ ~Joined(c)
                  \/ n \in { mirror[c][i].seq : i \in 1..Len(mirror[c]) }
                  \/ n \notin { LogOf(c)[i].seq : i \in 1..Len(LogOf(c)) }
    /\ <>[](\A c \in ConnIds : Joined(c) => mirror[c] = LogOf(c))

\* C9: when a connection joins with a room id, SYNC goes to that connection only and
\* carries the room log's operations as they are at join time, in seq order; what
\* was emitted to any other connection is unchanged.
C9_SyncToJoinerOnly ==
    [][\A c \in ConnIds :
          (conn[c].status = "idle" /\ conn'[c].status = "joined") =>
              LET roomId == conn'[c].room
                  atJoin == IF Has(rooms, roomId) THEN rooms[roomId].operations ELSE <<>>
              IN  /\ inbox'[c] = <<SyncMsg(roomId, atJoin)>>
                  /\ Ascending(SeqsOf(atJoin))
                  /\ \A d \in ConnIds \ {c} : inbox'[d] = inbox[d]]_vars

\* a connection has just joined a room that already has history and another member:
\* its SYNC carries the log, the other member has no SYNC pending
C9_Witness ==
    \E c, d \in ConnIds :
        /\ c # d
        /\ Joined(c) /\ Joined(d)
        /\ conn[c].room = conn[d].room
        /\ inbox[c] = <<SyncMsg(conn[c].room, LogOf(c))>>
        /\ LogOf(c) # <<>>
        /\ mirror[d] # <<>>
        /\ \A i \in 1..Len(inbox[d]) : inbox[d][i].type # "S_SYNC"

----------------------------------------------------------------------------
(* Claims on the folds (SpecFold)                                          *)

\* C10: the client fold (CanvasRenderer.renderHistory) and the server fold
\* (DrawingState.computeVisibleStrokes) give the same visible strokes, in the same
\* order, on every operation sequence.
C10_FoldsAgree ==
    foldOut # null => foldOut.server = foldOut.client

\* a stroke id was added, removed and added again behind another stroke
C10_Witness ==
    /\ foldOut # null
    /\ Len(foldIn) = 3
    /\ foldIn[2].type = "REMOVE_STROKE"
    /\ Len(foldOut.server) >= 1
    /\ foldOut.server = foldOut.client

\* the stroke id is visible just before position i of ops: added at an earlier
\* position and not removed since
VisibleBefore(ops, i, id) ==
    \E j \in 1..(i - 1) :
        /\ ops[j].type = "ADD_STROKE"
        /\ ops[j].stroke.id = id
        /\ \A k \in (j + 1)..(i - 1) :
               ~(ops[k].type = "REMOVE_STROKE" /\ ops[k].strokeId = id)

\* position i of ops is a REMOVE_STROKE of a stroke id that is not visible there
DeadRemove(ops, i) ==
    /\ ops[i].type = "REMOVE_STROKE"
    /\ ~VisibleBefore(ops, i, ops[i].strokeId)

\* ops without its removes of strokes that are not visible
WithoutDeadRemoves(ops) ==
    LET keep == SelectSeq([i \in 1..Len(ops) |-> i], LAMBDA i : ~DeadRemove(ops, i))
    IN  [k \in 1..Len(keep) |-> ops[keep[k]]]

\* C11: in the fold of the log a REMOVE_STROKE of a stroke id that is not visible is
\* a no-op: the log folds to the same visible strokes as the log without such
\* removes (so add X, remove X, remove X folds as add X, remove X), and the fold
\* is defined on it.
C11_DeadRemoveIsNoOp ==
    foldOut # null =>
        foldOut.server =
            computeVisibleStrokes([operations |-> WithoutDeadRemoves(foldIn),
                                   redoStack |-> <<>>, nextSeq |-> 1])

\* the folded log was add X, remove X, remove X
C11_Witness ==
    /\ foldOut # null
    /\ Len(foldIn) = 3
    /\ foldIn[1].type = "ADD_STROKE"
    /\ foldIn[2].type = "REMOVE_STROKE" /\ foldIn[2].strokeId = foldIn[1].stroke.id
    /\ foldIn[3].type = "REMOVE_STROKE" /\ foldIn[3].strokeId = foldIn[1].stroke.id
    /\ foldOut.server = <<>>

----------------------------------------------------------------------------
(* Claims on rooms, handlers and buffers (Spec)                            *)

\* c went through the room join: getRoomState(roomId) was called for it
HasJoined(c) == conn[c].status # "idle" /\ conn[c].room # NoRoomId

\* C12: getRoomState returns the same DrawingState object for every call with the
\* same room id (also to two connections that join a new room one after the other)
\* and different objects for different room ids; an entry of rooms is never removed
\* or replaced by another object.
C12_OneInstancePerRoom ==
    /\ [](/\ DOMAIN instances.byRoom = DOMAIN rooms
          /\ \A c \in ConnIds :
                 HasJoined(c) => connState[c] = instances.byRoom[conn[c].room]
          /\ \A c, d \in ConnIds :
                 (HasJoined(c) /\ HasJoined(d)) =>
                     (connState[c] = connState[d] <=> conn[c].room = conn[d].room)
          /\ \A r1, r2 \in DOMAIN instances.byRoom :
                 r1 # r2 => instances.byRoom[r1] # instances.byRoom[r2])
    /\ [][\A r \in DOMAIN instances.byRoom :
              /\ r \in DOMAIN instances.byRoom'
              /\ r \in DOMAIN rooms'
              /\ instances.byRoom'[r] = instances.byRoom[r]]_vars

\* two connections joined the same room one after the other, the second after the
\* first had committed a stroke to it, and both hold the same object
C12_Witness ==
    \E c, d \in ConnIds :
        /\ c # d
        /\ Joined(c) /\ Joined(d)
        /\ conn[c].room = conn[d].room
        /\ connState[c] = connState[d]
        /\ mirror[c] # <<>>
        /\ inbox[d] = <<SyncMsg(conn[d].room, LogOf(d))>>
        /\ LogOf(d) # <<>>

\* the messages emitted to d in this step
Emitted(d) == SubSeq(inbox'[d], Len(inbox[d]) + 1, Len(inbox'[d]))

\* the step creates no room, changes the log of no room but c's and no mirror, and
\* emits only to connections joined to c's room, messages labelled with that room
ConfinedToRoomOf(c) ==
    /\ DOMAIN rooms' = DOMAIN rooms
    /\ \A r \in DOMAIN rooms : r # conn[c].room => rooms'[r] = rooms[r]
    /\ mirror' = mirror
    /\ \A d \in ConnIds :
           inbox'[d] # inbox[d] =>
               /\ Joined(d) /\ conn[d].room = conn[c].room
               /\ Len(inbox'[d]) > Len(inbox[d])
               /\ SubSeq(inbox'[d], 1, Len(inbox[d])) = inbox[d]
               /\ \A i \in 1..Len(Emitted(d)) : Emitted(d)[i].roomId = conn[c].room

\* C13: rooms are isolated.  A message from a connection joined to room r changes
\* the log of no other room and no mirror, creates no room, and is broadcast only
\* to connections joined to r, labelled r; what is pending for a connection is
\* labelled with its own room; a message whose roomId is not the sender's room is
\* dropped with no state change and no broadcast.
C13_RoomsIsolated ==
    /\ \A d \in ConnIds : \A i \in 1..Len(inbox[d]) : inbox[d][i].roomId = conn[d].room
    /\ \A c \in ConnIds : \A m \in MsgRoomIds :
           ~ENABLED (/\ OnMessage(c, m)
                     /\ ~(IF m # conn[c].room THEN UNCHANGED vars ELSE ConfinedToRoomOf(c)))

\* two rooms with one member each: a stroke was committed and undone in one room,
\* another stroke committed in the other, whose member's mirror holds just that one
C13_Witness ==
    \E c, d \in ConnIds :
        /\ Joined(c) /\ Joined(d)
        /\ conn[c].room # conn[d].room
        /\ rooms[conn[c].room].redoStack # <<>>
        /\ rooms[conn[c].room].operations = <<>>
        /\ inbox[d] = <<>>
        /\ Len(LogOf(d)) = 1
        /\ mirror[d] = LogOf(d)

----------------------------------------------------------------------------
(* Claims on two runs of the server (SpecPair)                             *)

\* the seq values a run assigned by commit and redo are the values of a counter
\* from 1: out is 0 or repeats an issued seq (undo) or is the next value
FromCounter(out) ==
    \A i \in 1..Len(out) :
        out[i] <= 1 + Cardinality({ out[j] : j \in 1..(i - 1) } \ {0})

----------------------------------------------------------------------------
(* Claims on the message handlers and buffers (Spec)                       *)

\* no STROKE_MOVE or STROKE_END step that is possible now for a (connection id,
\* stroke id) without a buffer entry changes a variable
UnknownStrokeIgnored ==
    \A c \in ConnIds : \A id \in StrokeIds :
        (Accepts(c) /\ ~Has(activeStrokes, bufferKey(c, id))) =>
            ~ENABLED (/\ \/ StrokeEnd(c, id)
                         \/ \E points \in PointBatches : StrokeMove(c, id, points)
                      /\ ~UNCHANGED vars)

\* C15: a STROKE_MOVE or STROKE_END whose (connection id, stroke id) has no buffer
\* entry changes no state: the buffers, every log and nextSeq stay as they are,
\* nothing is relayed or broadcast, and nothing is sent to the sender.
C15_UnknownStrokeIgnored == []UnknownStrokeIgnored

\* a connection with a stroke in progress has no buffer for the other stroke id, while the other connection of its room has one
C15_Witness ==
    \E c, d \in ConnIds : \E id, other \in StrokeIds :
        /\ c # d /\ id # other
        /\ Joined(c) /\ Joined(d) /\ conn[c].room = conn[d].room
        /\ Has(activeStrokes, bufferKey(c, id))
        /\ ~Has(activeStrokes, bufferKey(c, other))
        /\ Has(activeStrokes, bufferKey(d, other))

\* on an empty operations list undo returns null and changes nothing, on an empty
\* redoStack redo does, and no UNDO or REDO step that is possible then changes a
\* variable
EmptyUndoRedoNoOp ==
    \A c \in ConnIds :
        Accepts(c) =>
            LET log == rooms[conn[c].room]
            IN  /\ Len(log.operations) = 0 =>
                       /\ undo(log) = [state |-> log, ret |-> null]
                       /\ ~ENABLED (Undo(c) /\ ~UNCHANGED vars)
                /\ Len(log.redoStack) = 0 =>
                       /\ redo(log) = [state |-> log, ret |-> null]
                       /\ ~ENABLED (Redo(c) /\ ~UNCHANGED vars)

\* C16: undo() on an empty operations list and redo() on an empty redoStack return
\* null and leave operations, redoStack and nextSeq as they are; the UNDO and REDO
\* handlers then broadcast nothing: no variable changes.
C16_EmptyUndoRedoNoOp == []EmptyUndoRedoNoOp

\* one room's log was emptied by undo (redo is possible there, undo is not) while
\* the other room's log holds an operation and has nothing to redo
C16_Witness ==
    \E c, d \in ConnIds :
        /\ Accepts(c) /\ Accepts(d)
        /\ rooms[conn[c].room].operations = <<>>
        /\ rooms[conn[c].room].redoStack # <<>>
        /\ rooms[conn[d].room].operations # <<>>
        /\ rooms[conn[d].room].redoStack = <<>>
        /\ inbox[c] # <<>>

\* C17: a connection that supplies no room id is disconnected before any state is
\* touched: the step creates no room entry, changes no log and no buffer, sends
\* no SYNC (nor anything else), and the connection never has a message handler.
C17_NoRoomIdRefused ==
    \A c \in ConnIds :
        /\ ~ENABLED (/\ ConnectNoRoom(c)
                     /\ ~(/\ conn'[c].status = "closed"
                          /\ UNCHANGED <<rooms, instances, connState, activeStrokes,
                                         inbox, clientVars>>
                          /\ \A d \in ConnIds \ {c} : conn'[d] = conn[d]))
        /\ (conn[c].status = "closed" /\ conn[c].room = NoRoomId) =>
               /\ ~Accepts(c)
               /\ connState[c] = 0
               /\ inbox[c] = <<>>
               /\ mirror[c] = <<>>
               /\ NoRoomId \notin DOMAIN rooms
               /\ \A m \in MsgRoomIds : ~ENABLED OnMessage(c, m)
               /\ \A roomId \in RoomIds : ~ENABLED Connect(c, roomId)

\* one connection was refused for its missing room id while the other had joined a
\* room and committed a stroke there
C17_Witness ==
    \E c, d \in ConnIds :
        /\ conn[c].status = "closed" /\ conn[c].room = NoRoomId
        /\ Joined(d)
        /\ LogOf(d) # <<>>
        /\ DOMAIN rooms = {conn[d].room}

\* the buffer keys of connection c
KeysOf(c) == { bufferKey(c, id) : id \in StrokeIds }

\* no disconnect that is possible now does anything but drop the connection's own
\* buffers, and a closed connection has no buffer and no handler
DisconnectDropsOwnBuffers ==
    \A c \in ConnIds :
        /\ ~ENABLED (/\ Disconnect(c)
                     /\ ~(/\ DOMAIN activeStrokes' = (DOMAIN activeStrokes) \ KeysOf(c)
                          /\ \A k \in DOMAIN activeStrokes' :
                                 activeStrokes'[k] = activeStrokes[k]
                          /\ \A d \in ConnIds \ {c} : inbox'[d] = inbox[d]
                          /\ UNCHANGED <<rooms, instances, clientVars>>))
        /\ conn[c].status = "closed" =>
               /\ KeysOf(c) \cap DOMAIN activeStrokes = {}
               /\ \A m \in MsgRoomIds : ~ENABLED OnMessage(c, m)

\* C18: when a connection disconnects, every buffer entry of that connection is
\* removed and every entry of the other connections stays as it is; nothing is
\* relayed and no log changes; the partial stroke is never committed later: a
\* disconnected connection has no buffer entry and no message handler.
C18_DisconnectDropsOwnBuffers == []DisconnectDropsOwnBuffers

\* a connection started a stroke (its room mate drew it from the relay), then
\* disconnected before ending it: nothing was committed, its buffer is gone, the
\* room mate's own buffer is still there
C18_Witness ==
    \E c, d \in ConnIds : \E id \in StrokeIds :
        /\ c # d
        /\ conn[c].status = "closed" /\ conn[c].room = conn[d].room
        /\ Joined(d)
        /\ Has(remoteStrokes[d], id)
        /\ inbox[d] = <<>>
        /\ rooms[conn[d].room] = NewDrawingState
        /\ Has(activeStrokes, bufferKey(d, id))
        /\ ~Has(activeStrokes, bufferKey(c, id))

----------------------------------------------------------------------------
(* Claims on the buffers of one server run (SpecRun)                       *)

\* the stroke id of connection c is in progress: started and not ended
InProgress(server, c, id) == Has(server.activeStrokes, bufferKey(c, id))

\* C19: buffer entries are independent: for two strokes in progress with distinct
\* stroke ids on one connection, or with any stroke ids (the same one included) on
\* two connections, a STROKE_MOVE or STROKE_END on one leaves the other's entry
\* in place with its points, color and size.
C19_BuffersIndependent ==
    \A c, d \in ConnIds : \A id, other \in StrokeIds :
        (/\ <<c, id>> # <<d, other>>
         /\ InProgress(pair.a, c, id)
         /\ InProgress(pair.a, d, other)) =>
            \A msg \in ClientMessages("C_STROKE_MOVE") \cup ClientMessages("C_STROKE_END") :
                msg.id = id =>
                    LET after == HandleMessage(pair.a, c, msg).server
                    IN  /\ InProgress(after, d, other)
                        /\ after.activeStrokes[bufferKey(d, other)] =
                               pair.a.activeStrokes[bufferKey(d, other)]

\* both connections have the same stroke id in progress and one of the two has
\* taken a STROKE_MOVE: its points grew, the other's are the start point alone
C19_Witness ==
    \E c, d \in ConnIds : \E id \in StrokeIds :
        /\ c # d
        /\ InProgress(pair.a, c, id)
        /\ InProgress(pair.a, d, id)
        /\ Len(pair.a.activeStrokes[bufferKey(c, id)].points) > 1
        /\ Len(pair.a.activeStrokes[bufferKey(d, id)].points) = 1

----------------------------------------------------------------------------
(* Claims on the commit of a stroke (Spec)                                 *)

\* the ADD_STROKE operation a STROKE_END for id commits from the buffer, with seq n
Committed(id, buffer, n) ==
    [id |-> id, type |-> "ADD_STROKE", seq |-> n,
     stroke |-> [id |-> buffer.id, color |-> buffer.color, size |-> buffer.size,
                 points |-> buffer.points]]

\* no STROKE_START, STROKE_MOVE or STROKE_END step that is possible now leaves the
\* buffer or the log other than the claim says
StrokeEndCommitsBuffer ==
    \A c \in ConnIds : \A id \in StrokeIds :
        LET key == bufferKey(c, id)
            roomId == conn[c].room
        IN  /\ Accepts(c) =>
                \A color \in Colors, size \in Sizes, p \in StartPoints :
                    ~ENABLED (/\ StrokeStart(c, id, color, size, p)
                              /\ activeStrokes'[key] #
                                     [id |-> id, color |-> color, size |-> size,
                                      points |-> <<p>>])
            /\ (Accepts(c) /\ Has(activeStrokes, key)) =>
                   LET buffer == activeStrokes[key]
                       log == rooms[roomId]
                   IN  /\ buffer.id = id
                       /\ \A points \in PointBatches :
                              ~ENABLED (/\ StrokeMove(c, id, points)
                                        /\ activeStrokes'[key] #
                                               [buffer EXCEPT !.points = @ \o points])
                       /\ ~ENABLED (/\ StrokeEnd(c, id)
                                    /\ ~(/\ rooms'[roomId].operations =
                                                Append(log.operations,
                                                       Committed(id, buffer, log.nextSeq))
                                         /\ \A r \in DOMAIN rooms \ {roomId} :
                                                rooms'[r] = rooms[r]
                                         /\ ~Has(activeStrokes', key)))

----------------------------------------------------------------------------
(* SpecHeap: one run of the server, one room, fed messages by both sockets, *)
(* with every points array an object of its own.  In server.ts the Stroke   *)
(* built at STROKE_END gets buffer.points itself, not a copy of it.         *)

\* a plausible slip: the start point is pushed onto the array of a buffer that is
\* already there
OnStrokeStart_KeepsPoints(m, key, msg) ==
    IF Has(m.activeStrokes, key)
    THEN [m EXCEPT !.arrays[m.activeStrokes[key].points] = Append(@, msg.startPoint)]
    ELSE [m EXCEPT !.arrays = Append(@, <<msg.startPoint>>),
                   !.activeStrokes = Put(@, key, [id |-> msg.id, color |-> msg.color,
                                                  size |-> msg.size,
                                                  points |-> Len(m.arrays) + 1])]

\* activeStrokes.set(bufferKey, {..., points: [msg.startPoint]}): a new array
OnStrokeStart(m, key, msg) ==
    [m EXCEPT !.arrays = Append(@, <<msg.startPoint>>),
              !.activeStrokes = Put(@, key, [id |-> msg.id, color |-> msg.color,
                                             size |-> msg.size,
                                             points |-> Len(m.arrays) + 1])]

\* buffer.points.push(...msg.points): the array is changed in place
OnStrokeMove(m, key, msg) ==
    IF ~Has(m.activeStrokes, key) THEN m
    ELSE [m EXCEPT !.arrays[m.activeStrokes[key].points] = @ \o msg.points]

\* a plausible slip: the buffer is not deleted after the commit
OnStrokeEnd_KeepsBuffer(m, key, msg) ==
    IF ~Has(m.activeStrokes, key) THEN m
    ELSE LET buffer == m.activeStrokes[key]
             stroke == Stroke(buffer.id, buffer.color, buffer.size, buffer.points)
             r == pushOperation(m.state, AddStrokeOp(msg.id, stroke))
         IN  [m EXCEPT !.state = r.state]

\* points: buffer.points hands the buffer's array to the stroke
OnStrokeEnd(m, key, msg) ==
    IF ~Has(m.activeStrokes, key) THEN m
    ELSE LET buffer == m.activeStrokes[key]
             stroke == Stroke(buffer.id, buffer.color, buffer.size, buffer.points)
             r == pushOperation(m.state, AddStrokeOp(msg.id, stroke))
         IN  [m EXCEPT !.state = r.state, !.activeStrokes = Remove(@, key)]

HeapMessage(m, socketId, msg) ==
    LET key == bufferKey(socketId, msg.id)
    IN  CASE msg.type = "C_STROKE_START" -> OnStrokeStart(m, key, msg)
          [] msg.type = "C_STROKE_MOVE" -> OnStrokeMove(m, key, msg)
          [] msg.type = "C_STROKE_END" -> OnStrokeEnd(m, key, msg)
          [] msg.type = "C_UNDO" -> [m EXCEPT !.state = undo(@).state]
          [] msg.type = "C_REDO" -> [m EXCEPT !.state = redo(@).state]
          [] OTHER -> m

\* the points a socket has sent for a stroke id since its latest STROKE_START for it
Received(received, socketId, msg) ==
    LET key == bufferKey(socketId, msg.id)
    IN  CASE msg.type = "C_STROKE_START" -> Put(received, key, <<msg.startPoint>>)
          [] msg.type = "C_STROKE_MOVE" /\ Has(received, key) ->
                 [received EXCEPT ![key] = @ \o msg.points]
          [] OTHER -> received

\* what a socket sends: the client messages that touch the log or a buffer, a
\* STROKE_START in the client's color
HeapMessages(socketId) ==
    { msg \in UNION { ClientMessages(type) : type \in ClientMessageTypes \ {"C_CURSOR_MOVE"} } :
          /\ "color" \in DOMAIN msg => msg.color = currentColor(socketId)
          /\ "seq" \notin DOMAIN msg }

Feed(socketId, msg) ==
    /\ mem.fed < MaxHeapLen
    /\ mem' = [HeapMessage(mem, socketId, msg) EXCEPT
                   !.received = Received(mem.received, socketId, msg),
                   !.fed = mem.fed + 1]
    /\ UNCHANGED <<logVars, foldVars, sysVars, pair, input, health>>

FeedHeap == \E socketId \in ConnIds : \E msg \in HeapMessages(socketId) : Feed(socketId, msg)

InitHeap == InitLogVars /\ InitFoldVars /\ InitPairVars /\ InitSysVars /\ budget = NoBudget

NextHeap == FeedHeap

SpecHeap == InitHeap /\ [][NextHeap]_vars

----------------------------------------------------------------------------
(* SpecSnap: a DrawingState and a caller holding a list getSnapshot returned *)

\* an element the caller puts into the list it holds
Foreign == WithSeq(RemoveStrokeOp("s2", "s2"), 0)

\* the caller's list and this.operations are one array object
Aliased == snapshot # null /\ snapshot.array = "operations"

\* a method of the log ran and left newState: what it did to this.operations in
\* place (push, pop) shows in the caller's list iff that is the same array
LogCall(newState) ==
    /\ calls < MaxSnapCalls
    /\ calls' = calls + 1
    /\ ds' = newState
    /\ snapshot' = IF Aliased THEN [snapshot EXCEPT !.items = newState.operations]
                   ELSE snapshot
    /\ UNCHANGED <<lastCall, prevCall, issued, past, foldVars, sysVars, pair, mem, input, health>>

SnapPushOperation == \E op \in DraftOps : LogCall(pushOperation(ds, op).state)

SnapUndo == LogCall(undo(ds).state)

SnapRedo == LogCall(redo(ds).state)

CallGetSnapshot ==
    /\ snapshot' = getSnapshot(ds)
    /\ UNCHANGED <<ds, calls, lastCall, prevCall, issued, past, foldVars, sysVars, pair, mem, input, health>>

\* list.push(x), list.pop(), list[0] = x, list.length = 0
Edits(items) ==
    {Append(items, Foreign), <<>>}
        \cup (IF Len(items) > 0
              THEN {SubSeq(items, 1, Len(items) - 1), [items EXCEPT ![1] = Foreign]}
              ELSE {})

\* the caller mutates the list it holds; the log's array changes with it iff it is
\* the same array
MutateSnapshot ==
    /\ snapshot # null
    /\ calls < MaxSnapCalls
    /\ calls' = calls + 1
    /\ \E items \in Edits(snapshot.items) :
           /\ items # snapshot.items
           /\ snapshot' = [snapshot EXCEPT !.items = items]
           /\ ds' = IF Aliased THEN [ds EXCEPT !.operations = items] ELSE ds
    /\ UNCHANGED <<lastCall, prevCall, issued, past, foldVars, sysVars, pair, mem, input, health>>

InitSnap == InitLogVars /\ InitFoldVars /\ InitPairVars /\ InitSysVars /\ budget = NoBudget

NextSnap == SnapPushOperation \/ SnapUndo \/ SnapRedo \/ CallGetSnapshot \/ MutateSnapshot

SpecSnap == InitSnap /\ [][NextSnap]_vars

----------------------------------------------------------------------------
(* Claims on who receives what (Spec)                                      *)

\* the types of the messages emitted to d in this step
EmittedTypes(d) == [i \in 1..Len(Emitted(d)) |-> Emitted(d)[i].type]

\* in this step the sender c got messages of types toSender, every other connection
\* of c's room got toOthers, and nobody else got anything; nothing pending was lost
Recipients(c, toSender, toOthers) ==
    \A d \in ConnIds :
        /\ Len(inbox'[d]) >= Len(inbox[d])
        /\ SubSeq(inbox'[d], 1, Len(inbox[d])) = inbox[d]
        /\ EmittedTypes(d) = IF d = c THEN toSender
                             ELSE IF d \in InRoom(conn[c].room) THEN toOthers
                             ELSE <<>>

\* no handler step that is possible now emits to anyone but the recipients of its
\* kind of message
RecipientsByKind ==
    \A c \in ConnIds :
        Accepts(c) =>
            LET log == rooms[conn[c].room]
            IN  /\ \A id \in StrokeIds :
                       /\ ~ENABLED (/\ \E color \in Colors, size \in Sizes, p \in StartPoints :
                                           StrokeStart(c, id, color, size, p)
                                    /\ ~Recipients(c, <<>>, <<"S_STROKE_START">>))
                       /\ Has(activeStrokes, bufferKey(c, id)) =>
                              /\ ~ENABLED (/\ \E points \in PointBatches :
                                                  StrokeMove(c, id, points)
                                           /\ ~Recipients(c, <<>>, <<"S_STROKE_MOVE">>))
                              /\ ~ENABLED (/\ StrokeEnd(c, id)
                                           /\ ~Recipients(c, <<"S_OPERATION">>,
                                                  <<"S_OPERATION", "S_STROKE_END">>))
                /\ Len(log.operations) > 0 =>
                       ~ENABLED (Undo(c) /\ ~Recipients(c, <<"S_UNDO">>, <<"S_UNDO">>))
                /\ Len(log.redoStack) > 0 =>
                       ~ENABLED (Redo(c) /\ ~Recipients(c, <<"S_REDO">>, <<"S_REDO">>))
                /\ ~ENABLED (/\ \E pos \in CursorPositions : CursorMove(c, pos)
                             /\ ~Recipients(c, <<>>, <<"S_CURSOR">>))

\* C21: recipients by message kind.  The commit, undo and redo broadcasts go to
\* every connection in the room, the sender included; the stream start, move and
\* end relays and the cursor broadcast go to every other connection in the room
\* and never to the sender.
C21_RecipientsByKind == []RecipientsByKind

\* after a commit by c the sender has the operation pending and no stream end,
\* its room mate has the operation and then the stream end of c's stroke
C21_Witness ==
    \E c, d \in ConnIds :
        /\ c # d
        /\ Joined(c) /\ Joined(d) /\ conn[c].room = conn[d].room
        /\ Len(inbox[c]) = 1 /\ inbox[c][1].type = "S_OPERATION"
        /\ Len(inbox[d]) = 2 /\ inbox[d][1] = inbox[c][1]
        /\ inbox[d][2].type = "S_STROKE_END" /\ inbox[d][2].userId = c

----------------------------------------------------------------------------
(* Claims on what changes a room's log (Spec)                              *)

\* some existing room's operations, redoStack or nextSeq differ after this step
LogsChanged ==
    \E roomId \in DOMAIN rooms :
        \/ ~Has(rooms', roomId)
        \/ rooms'[roomId].operations # rooms[roomId].operations
        \/ rooms'[roomId].redoStack # rooms[roomId].redoStack
        \/ rooms'[roomId].nextSeq # rooms[roomId].nextSeq

\* no step that is possible now and is not a commit, an undo or a redo changes a log
OnlyCommitUndoRedoChangeLog ==
    /\ \A c \in ConnIds :
           /\ ~ENABLED (/\ \/ \E id \in StrokeIds, color \in Colors, size \in Sizes,
                                 p \in StartPoints : StrokeStart(c, id, color, size, p)
                           \/ \E id \in StrokeIds, points \in PointBatches :
                                 StrokeMove(c, id, points)
                           \/ \E pos \in CursorPositions : CursorMove(c, pos)
                        /\ LogsChanged)
           /\ ~ENABLED (/\ \/ \E roomId \in RoomIds : Connect(c, roomId)
                           \/ ConnectNoRoom(c)
                           \/ \E msgRoomId \in MsgRoomIds : WrongRoomMessage(c, msgRoomId)
                           \/ Disconnect(c)
                           \/ ClientStep(c)
                        /\ LogsChanged)
           /\ \A id \in StrokeIds :
                  ~Has(activeStrokes, bufferKey(c, id)) =>
                      ~ENABLED (StrokeEnd(c, id) /\ LogsChanged)

\* C22: STROKE_START, STROKE_MOVE and CURSOR_MOVE leave operations, redoStack and
\* nextSeq of every room unchanged; a room's log changes only on a STROKE_END
\* whose buffer exists, an UNDO or a REDO (so on no handshake, disconnect,
\* rejected message, buffer-less STROKE_END or client handler either).
C22_OnlyCommitUndoRedoChangeLog == []OnlyCommitUndoRedoChangeLog

\* a STROKE_START was relayed after a commit, and the room's log is still the one
\* the commit left
C22_Witness ==
    \E d \in ConnIds :
        /\ Joined(d)
        /\ Len(inbox[d]) = 3
        /\ inbox[d][1].type = "S_OPERATION"
        /\ inbox[d][3].type = "S_STROKE_START"
        /\ rooms[conn[d].room].operations = <<inbox[d][1].operation>>
        /\ rooms[conn[d].room].redoStack = <<>>
        /\ rooms[conn[d].room].nextSeq = 2

----------------------------------------------------------------------------
(* Claims on the global undo (Spec)                                        *)

\* this step took the last operation off the log of c's room and announced it
RemovedLast(c) ==
    LET log == rooms[conn[c].room]
        n == Len(log.operations)
    IN  /\ rooms'[conn[c].room].operations = SubSeq(log.operations, 1, n - 1)
        /\ \A d \in InRoom(conn[c].room) :
               /\ Len(Emitted(d)) = 1
               /\ Emitted(d)[1].type = "S_UNDO"
               /\ Emitted(d)[1].operation = log.operations[n]

\* no UNDO step that is possible now, from any connection of a room with a
\* non-empty log, does anything but remove the last operation of the log
UndoIsGlobal ==
    \A c \in ConnIds :
        (Accepts(c) /\ Len(LogOf(c)) > 0) =>
            ~ENABLED (Undo(c) /\ ~RemovedLast(c))

\* C23: undo is global to the room.  An UNDO from any connection removes the
\* operation that is last in the room's log when the message is processed,
\* whichever connection committed it and whatever the undoing client has seen.
C23_UndoIsGlobal == []UndoIsGlobal

\* c has not yet handled the commit of d's stroke (the operation and d's stream
\* end are still pending, c's mirror holds only the operation before it), the
\* operation is last in the log, and c's UNDO removes it
C23_Witness ==
    \E c, d \in ConnIds :
        /\ c # d
        /\ Joined(c)
        /\ Len(inbox[c]) = 2
        /\ inbox[c][1].type = "S_OPERATION"
        /\ inbox[c][2].type = "S_STROKE_END" /\ inbox[c][2].userId = d
        /\ Len(LogOf(c)) = 2
        /\ mirror[c] = <<LogOf(c)[1]>>
        /\ LogOf(c)[2] = inbox[c][1].operation
        /\ ENABLED (Undo(c) /\ RemovedLast(c) /\ Len(rooms'[conn[c].room].operations) = 1)

----------------------------------------------------------------------------
(* Claims on the redo stack and the counter (SpecLog)                      *)

\* s is t or t with elements dropped from its end
IsPrefix(s, t) == Len(s) <= Len(t) /\ SubSeq(t, 1, Len(s)) = s

\* this call put onto redoStack the operation it popped from operations, as it was
PushedPopped ==
    LET n == Len(ds.operations)
    IN  /\ n > 0
        /\ lastCall'.name = "undo"
        /\ ds'.operations = SubSeq(ds.operations, 1, n - 1)
        /\ ds'.redoStack = Append(ds.redoStack, ds.operations[n])
        /\ lastCall'.ret = ds.operations[n]

\* C24: every element of redoStack is an operation that undo popped from
\* operations, with the id, payload and seq it had there, and it is not in
\* operations at the same time.  The stack gains an element only by an undo
\* that moves the last operation of the log onto it unchanged.
C24_RedoStackHoldsUndone ==
    /\ \A i \in 1..Len(ds.redoStack) : \A j \in 1..Len(ds.operations) :
           ds.redoStack[i] # ds.operations[j]
    /\ ~ENABLED (NextLog /\ ~IsPrefix(ds'.redoStack, ds.redoStack) /\ ~PushedPopped)

\* two undos in a row: both undone operations are on the stack, most recent last,
\* and one operation is left in the log
C24_Witness ==
    /\ Len(ds.redoStack) = 2
    /\ Len(ds.operations) = 1
    /\ prevCall.name = "undo" /\ prevCall.ret = ds.redoStack[1]
    /\ lastCall.name = "undo" /\ lastCall.ret = ds.redoStack[2]

\* the latest 2k calls were k successful undos and then k redos
UndosThenRedos(k) ==
    LET n == Len(past)
    IN  /\ n >= 2 * k
        /\ \A i \in (n - 2 * k + 1)..(n - k) : past[i].name = "undo" /\ past[i].ok
        /\ \A i \in (n - k + 1)..n : past[i].name = "redo"

\* C26: after k consecutive successful undos followed by k consecutive redos, with
\* no push in between, operations holds the same operations in the same order
\* (ids and payloads) as before the undos, the last k of them carry k fresh
\* ascending seq values, and redoStack is as it was before the undos.
C26_UndosThenRedosRestore ==
    \A k \in 1..(MaxCalls \div 2) :
        UndosThenRedos(k) =>
            LET b == past[Len(past) - 2 * k + 1].before
                n == Len(b.operations)
            IN  /\ Len(ds.operations) = n
                /\ \A i \in 1..n : Payload(ds.operations[i]) = Payload(b.operations[i])
                /\ \A i \in 1..(n - k) : ds.operations[i] = b.operations[i]
                /\ \A i \in 1..k :
                       /\ ds.operations[n - k + i].seq = b.nextSeq + i - 1
                       /\ \A j \in 1..(Len(issued) - k) :
                              issued[j] < ds.operations[n - k + i].seq
                /\ ds.redoStack = b.redoStack

\* two different operations undone and then redone
C26_Witness ==
    /\ UndosThenRedos(2)
    /\ Len(ds.operations) = 2
    /\ Payload(ds.operations[1]) # Payload(ds.operations[2])

\* nextSeq after call i
NextSeqAfter(i) == IF i = Len(past) THEN ds.nextSeq ELSE past[i + 1].before.nextSeq

\* C27: nextSeq is strictly greater than the seq of every operation in operations
\* and in redoStack, equals 1 plus the number of successful pushOperation and redo
\* calls so far, and never decreases; undo does not change it.
C27_NextSeqCountsIssues ==
    /\ \A i \in 1..Len(ds.operations) : ds.operations[i].seq < ds.nextSeq
    /\ \A i \in 1..Len(ds.redoStack) : ds.redoStack[i].seq < ds.nextSeq
    /\ ds.nextSeq =
           1 + Cardinality({ i \in 1..Len(past) :
                                 past[i].name \in {"pushOperation", "redo"} /\ past[i].ok })
    /\ \A i \in 1..Len(past) :
           /\ past[i].before.nextSeq <= NextSeqAfter(i)
           /\ past[i].name = "undo" => NextSeqAfter(i) = past[i].before.nextSeq

\* push, push, undo, redo, undo: three seqs issued, an operation in the log and one
\* on the redo stack, the latest call a successful undo
C27_Witness ==
    /\ ds.nextSeq = 4
    /\ Len(ds.operations) = 1
    /\ Len(ds.redoStack) = 1
    /\ ds.redoStack[1].seq = 3
    /\ lastCall.name = "undo" /\ lastCall.ret # null

----------------------------------------------------------------------------
(* Claims on getSnapshot (SpecSnap)                                        *)

\* C25: getSnapshot returns a copy of operations, in seq order.  Mutating the
\* returned list never changes the log's operations, and a later pushOperation,
\* undo or redo never changes a list that was returned earlier.
C25_SnapshotIsACopy ==
    /\ ~ENABLED (/\ CallGetSnapshot
                 /\ ~ /\ snapshot'.items = ds.operations
                      /\ Ascending(SeqsOf(snapshot'.items)))
    /\ ~ENABLED (MutateSnapshot /\ ds' # ds)
    /\ snapshot # null =>
           ~ENABLED ((SnapPushOperation \/ SnapUndo \/ SnapRedo) /\ snapshot' # snapshot)

\* the caller has appended an element to the list it got when the log held one
\* operation; the log still holds just that operation, and an undo now empties the
\* log and leaves the caller's list as it is
C25_Witness ==
    /\ snapshot # null
    /\ Len(ds.operations) = 1
    /\ snapshot.items = <<ds.operations[1], Foreign>>
    /\ ENABLED (SnapUndo /\ ds'.operations = <<>> /\ snapshot' = snapshot)

----------------------------------------------------------------------------
(* Claims on committed strokes and their buffers (SpecHeap)                *)

\* a stroke as a reader of the log sees it: its points are what its array holds
StrokeAt(m, op) == [op.stroke EXCEPT !.points = m.arrays[@]]

\* the strokes of the log and then of the undone operations, latest undone first:
\* a position in it stays the position of an operation across undo and redo
Timeline(m) ==
    LET ops == m.state.operations
        undone == m.state.redoStack
    IN  [i \in 1..(Len(ops) + Len(undone)) |->
            IF i <= Len(ops) THEN StrokeAt(m, ops[i])
            ELSE StrokeAt(m, undone[Len(undone) - (i - Len(ops)) + 1])]

\* this step left every committed stroke as it was (a commit may drop the redo stack)
StrokesPreserved(msg) ==
    LET n == Len(mem.state.operations)
    IN  IF msg.type = "C_STROKE_END"
        THEN /\ Len(mem'.state.operations) >= n
             /\ SubSeq(Timeline(mem'), 1, n) = SubSeq(Timeline(mem), 1, n)
        ELSE Timeline(mem') = Timeline(mem)

\* C28: once an operation is in the room's log, its stroke (id, color, size,
\* points) is never changed by any later message, a later STROKE_START or
\* STROKE_MOVE that reuses the stroke id on the same connection included.
C28_CommittedStrokeFrozen ==
    \A socketId \in ConnIds : \A msg \in HeapMessages(socketId) :
        ~ENABLED (Feed(socketId, msg) /\ ~StrokesPreserved(msg))

\* a socket's stroke s1 is in the log with its start point only, and the same
\* socket has started s1 again and moved: the new buffer holds three points
C28_Witness ==
    \E socketId \in ConnIds :
        LET key == bufferKey(socketId, "s1")
        IN  /\ Len(mem.state.operations) = 1
            /\ StrokeAt(mem, mem.state.operations[1]) =
                   Stroke("s1", currentColor(socketId), 5, <<P0>>)
            /\ Has(mem.activeStrokes, key)
            /\ Len(mem.arrays[mem.activeStrokes[key].points]) = 3
            /\ Len(mem.arrays) = 2

\* the points of the buffer under key, read through its array
BufferPoints(m, key) == m.arrays[m.activeStrokes[key].points]

\* C29: a STROKE_START for a (connection, stroke id) that already has a buffer
\* replaces the buffer with one seeded with the new start point only, so the
\* stroke committed at STROKE_END contains only the points received since the
\* latest STROKE_START.
C29_RestartReplacesBuffer ==
    \A socketId \in ConnIds : \A msg \in HeapMessages(socketId) :
        LET key == bufferKey(socketId, msg.id)
        IN  /\ (msg.type = "C_STROKE_START" /\ Has(mem.activeStrokes, key)) =>
                   ~ENABLED (/\ Feed(socketId, msg)
                             /\ ~ /\ Has(mem'.activeStrokes, key)
                                  /\ BufferPoints(mem', key) = <<msg.startPoint>>)
            /\ (msg.type = "C_STROKE_END" /\ Has(mem.activeStrokes, key)) =>
                   ~ENABLED (/\ Feed(socketId, msg)
                             /\ LET ops == mem'.state.operations
                                IN  ~ /\ Len(ops) = Len(mem.state.operations) + 1
                                      /\ StrokeAt(mem', ops[Len(ops)]).points =
                                             mem.received[key])

\* a stroke was started and moved, started again under the same key and ended: the
\* first array, three points long, belongs to no buffer and no stroke, and the
\* committed stroke holds the second start point only
C29_Witness ==
    /\ Len(mem.arrays) = 2
    /\ Len(mem.arrays[1]) = 3
    /\ DOMAIN mem.activeStrokes = {}
    /\ Len(mem.state.operations) = 1
    /\ mem.state.operations[1].stroke.points = 2
    /\ StrokeAt(mem, mem.state.operations[1]).points = <<P0>>

----------------------------------------------------------------------------
(* Claims on the mirror under reused stroke ids (Spec)                     *)

\* C30: for every sequence of client messages, a reuse of an already committed
\* stroke id for a second completed stroke included, applying an undo broadcast
\* removes exactly one operation from the mirror (which then has the length of
\* the server's log after that undo).
C30_UndoRemovesExactlyOne ==
    \A c \in ConnIds :
        Delivers(c, "S_UNDO") =>
            ~ENABLED (ClientOnUndo(c) /\ Len(mirror'[c]) # Len(mirror[c]) - 1)

----------------------------------------------------------------------------
(* Claims on what a connection receives and holds (Spec)                   *)

\* each element is the one before it plus 1
Consecutive(s) == \A i \in 1..(Len(s) - 1) : s[i + 1] = s[i] + 1

\* the seqs of the commit and redo broadcasts c has received since its SYNC, as far
\* as the state tells: the latest one it handled, then the pending ones
ReceivedSeqs(c) ==
    LET pending == SelectSeq(inbox[c], LAMBDA m : m.type \in {"S_OPERATION", "S_REDO"})
        seqs == [i \in 1..Len(pending) |-> pending[i].operation.seq]
    IN  IF lastSeq[c] > 0 THEN <<lastSeq[c]>> \o seqs ELSE seqs

\* C31: for a connection that stays connected, the seq values of the commit and
\* redo broadcasts it receives after SYNC are consecutive integers, and the first
\* of them is greater than every seq in the SYNC snapshot.
C31_ReceivedSeqsConsecutive ==
    \A c \in ConnIds :
        Joined(c) =>
            LET s == ReceivedSeqs(c)
            IN  /\ Consecutive(s)
                /\ \A i \in 1..Len(s) : s[i] > syncTop[c]

\* a connection that joined when the log held seq 1 has handled the commit of seq 2
\* and has the redo of seq 3 pending behind the undo
C31_Witness ==
    \E c \in ConnIds :
        /\ Joined(c)
        /\ syncTop[c] = 1
        /\ lastSeq[c] = 2
        /\ Len(inbox[c]) = 2
        /\ inbox[c][1].type = "S_UNDO"
        /\ inbox[c][2].type = "S_REDO" /\ inbox[c][2].operation.seq = 3

\* the seqs of the commit broadcasts pending for c
PendingCommitSeqs(c) ==
    { inbox[c][i].operation.seq :
          i \in { i \in 1..Len(inbox[c]) : inbox[c][i].type = "S_OPERATION" } }

\* C32: SYNC is the first message a joining connection receives, and no operation
\* contained in its SYNC snapshot is delivered to it again as a commit broadcast:
\* in every reachable state a mirror holds no two operations with the same seq.
C32_SyncFirstNoDuplicates ==
    \A c \in ConnIds :
        LET pending == PendingCommitSeqs(c)
        IN  /\ \A i \in 1..Len(inbox[c]) : inbox[c][i].type = "S_SYNC" => i = 1
            /\ (Joined(c) /\ inbox[c] # <<>> /\ inbox[c][1].type = "S_SYNC") =>
                   /\ mirror[c] = <<>> /\ lastSeq[c] = 0
                   /\ remoteStrokes[c] = NoEntries /\ remoteCursors[c] = NoEntries
                   /\ \A i \in 1..Len(inbox[c][1].operations) :
                          inbox[c][1].operations[i].seq \notin pending
            /\ Joined(c) =>
                   \A i \in 1..Len(mirror[c]) : mirror[c][i].seq \notin pending
            /\ \A i, j \in 1..Len(mirror[c]) :
                   mirror[c][i].seq = mirror[c][j].seq => i = j

\* a mirror holding the operation of its SYNC snapshot and, after it, the one of a
\* commit broadcast
C32_Witness ==
    \E c \in ConnIds :
        /\ Joined(c)
        /\ syncTop[c] = 1
        /\ SeqsOf(mirror[c]) = <<1, 2>>
        /\ lastSeq[c] = 2

\* c has ended stroke id with a commit: the stream end relayed for it is still
\* pending for a room mate
JustCommitted(c, id) ==
    \E d \in ConnIds : \E i \in 1..Len(inbox[d]) :
        /\ inbox[d][i].type = "S_STROKE_END"
        /\ inbox[d][i].userId = c
        /\ inbox[d][i].id = id

\* a commit leaves no buffer behind, and a STROKE_END that follows a commit for the
\* same key with no buffer (no new STROKE_START) changes nothing
CommitsOnce ==
    \A c \in ConnIds : \A id \in StrokeIds :
        Accepts(c) =>
            /\ ~ENABLED (/\ StrokeEnd(c, id)
                         /\ rooms' # rooms
                         /\ Has(activeStrokes', bufferKey(c, id)))
            /\ (JustCommitted(c, id) /\ ~Has(activeStrokes, bufferKey(c, id))) =>
                   ~ENABLED (StrokeEnd(c, id) /\ ~UNCHANGED vars)

\* C33: each buffered stroke is committed at most once.  After a STROKE_END commits
\* a stroke, a second STROKE_END for the same (connection id, stroke id) without a
\* new STROKE_START appends nothing to the log and broadcasts nothing.
C33_CommitsOnce == []CommitsOnce

\* c's stroke was committed (once: the log holds one operation), c has started no
\* new stroke under the id, and a second STROKE_END from c is handled as a no-op
C33_Witness ==
    \E c \in ConnIds : \E id \in StrokeIds :
        /\ Accepts(c)
        /\ JustCommitted(c, id)
        /\ ~Has(activeStrokes, bufferKey(c, id))
        /\ Len(LogOf(c)) = 1 /\ LogOf(c)[1].id = id
        /\ ENABLED (StrokeEnd(c, id) /\ UNCHANGED vars)

----------------------------------------------------------------------------
(* Claims on what the handlers store (SpecRun)                             *)

C35_CommitBeforeStreamEnd ==
    \A d \in ConnIds : \A i \in 1..Len(inbox[d]) :
        inbox[d][i].type = "S_STROKE_END" =>
            IF i > 1
            THEN /\ inbox[d][i - 1].type = "S_OPERATION"
                 /\ inbox[d][i - 1].operation.id = inbox[d][i].id
            ELSE /\ mirror[d] # <<>>
                 /\ mirror[d][Len(mirror[d])].id = inbox[d][1].id
                 /\ mirror[d][Len(mirror[d])].seq = lastSeq[d]

\* a client is about to drop the live stroke it drew from the relays: the stream
\* end is next in its inbox and the committed operation is last in its mirror
C35_Witness ==
    \E d \in ConnIds :
        /\ Joined(d)
        /\ inbox[d] # <<>>
        /\ inbox[d][1].type = "S_STROKE_END"
        /\ Has(remoteStrokes[d], inbox[d][1].id)
        /\ mirror[d] # <<>>
        /\ mirror[d][Len(mirror[d])].id = inbox[d][1].id

\* the server buffers a stroke with this id for some connected author
Buffered(id) == \E c \in ConnIds : Has(activeStrokes, bufferKey(c, id))

\* C36: every entry of a client's remote live-stroke map corresponds to a stroke
\* still buffered on the server for its author and is eventually removed: no entry
\* remains for a stroke whose author has ended it or has disconnected.
C36_RemoteStrokesFollowBuffers ==
    \A d \in ConnIds : \A id \in StrokeIds :
        (Joined(d) /\ Has(remoteStrokes[d], id) /\ ~Buffered(id))
            ~> (~Joined(d) \/ ~Has(remoteStrokes[d], id))

\* the latest onStart or onEnd among the first n callbacks is an onStart
InStroke(called, n) ==
    \E j \in 1..n :
        /\ called[j].cb = "onStart"
        /\ \A k \in (j + 1)..n : called[k].cb \notin {"onStart", "onEnd"}

\* the stroke ids of the messages of a type the client has emitted
SentIds(type) ==
    { input.app.sent[i].id : i \in { i \in 1..Len(input.app.sent) :
                                         input.app.sent[i].type = type } }

\* C37: for any sequence of pointer events, InputHandler calls its callbacks in a
\* well-formed order: every onStart is followed by zero or more onMove and one onEnd
\* before the next onStart, no onMove occurs outside a stroke, and once the handler
\* is not drawing every stroke id the client started is also ended.
C37_CallbacksWellFormed ==
    /\ \A i \in 1..Len(input.called) :
           IF input.called[i].cb = "onStart"
           THEN ~InStroke(input.called, i - 1)
           ELSE InStroke(input.called, i - 1)
    /\ ~input.isDrawing => SentIds("C_STROKE_START") \subseteq SentIds("C_STROKE_END")

\* where a waitForServer call stands with respect to its outcomes: it has returned
\* only on a ready response, thrown only after maxRetries failed requests, and has
\* made no request beyond the failed ones and the one in flight or ready
HealthOutcome ==
    /\ health.requests <= maxRetries
    /\ health.at = "returned" =>
           /\ health.outcome = "ready"
           /\ health.requests = health.currentAttempt + 1
    /\ health.at = "thrown" =>
           /\ health.outcome # "ready"
           /\ health.currentAttempt = maxRetries
           /\ health.requests = maxRetries
    /\ health.at = "sleep" =>
           /\ health.currentAttempt < maxRetries
           /\ health.requests = health.currentAttempt
    /\ health.at = "fetch" => health.requests = health.currentAttempt + 1
    /\ \A jitter \in Jitters :
           ~ENABLED (FetchSettles("ready", jitter) /\ health'.at # "returned")

\* C38: waitForServer terminates for every sequence of health-check outcomes: it
\* returns at the first response that is ok with status 'ok', and otherwise throws
\* after exactly 10 failed attempts, never making an 11th request.
C38_WaitForServerTerminates ==
    /\ []HealthOutcome
    /\ <>(health.at \in {"returned", "thrown"})

\* ten health checks have failed and the call has thrown
C38_Witness ==
    /\ health.at = "thrown"
    /\ health.requests = 10
    /\ health.delay = maxDelay

====
